---- MODULE Spec2Model ----
(***************************************************************************)
(* MutaView: the StructureViewer component (render orchestrator, engine    *)
(* script loader), the per-residue displacement calculator, the            *)
(* displacement color ramp and its two callbacks, the CA-atom parser, and  *)
(* the ESMFold route.                                                      *)
(*                                                                         *)
(* JavaScript runs one task at a time, so every handler (an effect flush,  *)
(* a script load event, an unmount) is one atomic action.  React runs the  *)
(* cleanup of the previous effect and the body of the next one in the same *)
(* flush, after the DOM of the new render has been committed.              *)
(***************************************************************************)
EXTENDS Integers, Sequences, FiniteSets, TLC

(* ------------------------------ bounds -------------------------------- *)

\* Number of rendering cycles (effect runs) explored in one session.
MaxCycles == 2

\* Number of entries of a coordinate map handed to computePerResidueRmsd.
MaxMapLen == 2

\* Displacements are held in 1/RampScale of an angstrom.
RampScale == 10

\* Largest and lowest (below zero) displacement handed to the ramp, in
\* angstroms.
MaxRmsd == 7
NegRmsd == 2

\* Number of lines of a structure text handed to parseCaAtoms.
MaxLines == 2

\* Number of times the form is submitted.
MaxSubmits == 2

(* --------------------------- program constants ------------------------ *)

\* viewer.zoom(0.6), in tenths.
ZoomFactorTenths == 6

\* The displacement ramp: `rmsd < 2`, `(rmsd - 2) / 3`, and the channel
\* maximum 255.
YellowAt == 2
RedSpan == 3
Full == 255

\* The ESMFold route: `sequence.length > 400` and the scan of offsets
\* -5..5.
SeqLimit == 400
MaxShift == 5

\* getGeminiApiKey: the placeholder value of the key.
PlaceholderKey == "your-gemini-api-key-here"

(* ------------------------------ values -------------------------------- *)

\* mutantPdbData?: string | null -- the two absent values and the texts.
NullV == "<null>"
UndefV == "<undefined>"

PdbTexts == {"wA", "wB"}
MutantTexts == {NullV, UndefV, "", "mA"}
Positions == {1, 2}

\* The selector {} of setStyle / zoomTo: every atom.
AllAtoms == 0

Roles == {"single", "wild", "mutant"}

VARIABLES
  mounted,          \* a StructureViewer instance is mounted
  crashed,          \* an effect threw into React: the tree was torn down
  props,            \* pdbData, mutantPdbData, mutationPosition of the last render
  loading,          \* useState(true)
  window3Dmol,      \* window.$3Dmol is set
  scriptState,      \* the <script src=THREEDMOL_CDN>: none, loading, loaded, failed
  scriptAppends,    \* how many times document.head.appendChild(script) ran
  loadListeners,    \* "load" listeners of the script element: cycles, in order
  engineFault,      \* which engine call of this engine build throws, if any
  cycles,           \* one record per effect run: its closure variables
  viewers,          \* every instance createViewer returned, in creation order
  divs,             \* every div makeMolDiv created, in creation order
  wrapperChildren,  \* children of the wrapper elements now in the document
  wildCa,           \* computePerResidueRmsd: first argument
  mutantCa,         \* computePerResidueRmsd: second argument
  rmsdMap,          \* computePerResidueRmsd: result
  rmsdSwap,         \* computePerResidueRmsd with the arguments exchanged
  rmsdPc,           \* "idle", "input", "done"
  rampIn,           \* displacement ramp: the value, in 1/RampScale angstrom
  rampOut,          \* displacement ramp: the color string's r, g, b
  rampPc,           \* "idle", "input", "done"
  cfMap,            \* colorfunc: the rmsdMap captured by the two callbacks
  cfResi,           \* colorfunc: atom.resi
  cfAll,            \* colorfunc of setStyle({}, ...): the color returned
  cfSite,           \* colorfunc of setStyle({resi}, ...): the color returned
  cfPc,             \* "idle", "input", "done"
  pdbLines,         \* parseCaAtoms: the lines the text was assembled from
  pdbText,          \* parseCaAtoms: the argument
  caAtoms,          \* parseCaAtoms: the result
  parsePc,          \* "idle", "input", "done"
  foldReq,          \* ESMFold route: the request body
  foldPc,           \* ESMFold route: where the handler is
  foldSent,         \* ESMFold route: bodies POSTed to the folding service
  foldResolved,     \* ESMFold route: resolvedPosition
  foldResp,         \* ESMFold route: the response returned
  foldService,      \* ESMFold route: what the folding service did
  foldThrown,       \* ESMFold route: an exception left the handler
  pgQuery,          \* page: query
  pgMutation,       \* page: mutation
  pgProtein,        \* page: protein
  pgStructure,      \* page: structure
  pgError,          \* page: error
  pgLoading,        \* page: loading
  pgExplanation,    \* page: explanation
  pgExplainLoading, \* page: explainLoading
  pgRuns,           \* page: the calls of handleSubmit, each with its position
  pgRequests,       \* page: the requests issued, in order
  pgExplains,       \* page: the explanation requests and whether they are pending
  exReq,            \* explain route: the request body
  exKey,            \* explain route: process.env.GEMINI_API_KEY
  exPc,             \* explain route: where the handler is
  exCalls,          \* explain route: requests made to the LLM
  exResp,           \* explain route: the response returned
  exService,        \* explain route: what the LLM service did
  exThrown,         \* explain route: an exception left the handler
  dispWild,         \* dual mode: the lines of pdbData
  dispMutant,       \* dual mode: the lines of mutantPdbData
  dispWildCa,       \* dual mode: wildCa
  dispMutantCa,     \* dual mode: mutantCa
  dispMap,          \* dual mode: rmsdMap
  dispPc,           \* "idle", "input", "done"
  lgMounted,        \* legacy viewer: an instance is mounted
  lgCrashed,        \* legacy viewer: an effect threw into React
  lgProps,          \* legacy viewer: pdbData, mutationPosition of the last render
  lgLoading,        \* legacy viewer: loading
  lgWindow3Dmol,    \* legacy viewer: window.$3Dmol is set
  lgScript,         \* legacy viewer: the script element: none, loading, loaded, failed
  lgAppends,        \* legacy viewer: how many script elements were appended
  lgListeners,      \* legacy viewer: "load" listeners of the script: effects, in order
  lgFault,          \* legacy viewer: which engine call throws, if any
  lgEffects,        \* legacy viewer: one record per run of the script-load effect
  lgViewers,        \* legacy viewer: every instance createViewer returned
  lgDivs,           \* legacy viewer: every div initViewer created
  lgChildren,       \* legacy viewer: children of the wrapper now in the document
  lgViewerRef,      \* legacy viewer: viewerRef.current, 0 for null
  lgViewerDivRef    \* legacy viewer: viewerDivRef.current, 0 for null

viewerVars == <<mounted, crashed, props, loading, window3Dmol, scriptState,
                scriptAppends, loadListeners, engineFault, cycles, viewers,
                divs, wrapperChildren>>
rmsdVars == <<wildCa, mutantCa, rmsdMap, rmsdSwap, rmsdPc>>
rampVars == <<rampIn, rampOut, rampPc>>
colorVars == <<cfMap, cfResi, cfAll, cfSite, cfPc>>
parseVars == <<pdbLines, pdbText, caAtoms, parsePc>>
foldVars ==
  <<foldReq, foldPc, foldSent, foldResolved, foldResp, foldService, foldThrown>>
pageVars ==
  <<pgQuery, pgMutation, pgProtein, pgStructure, pgError, pgLoading,
    pgExplanation, pgExplainLoading, pgRuns, pgRequests, pgExplains>>
explainVars ==
  <<exReq, exKey, exPc, exCalls, exResp, exService, exThrown>>
dispVars ==
  <<dispWild, dispMutant, dispWildCa, dispMutantCa, dispMap, dispPc>>
legacyVars ==
  <<lgMounted, lgCrashed, lgProps, lgLoading, lgWindow3Dmol, lgScript,
    lgAppends, lgListeners, lgFault, lgEffects, lgViewers, lgDivs,
    lgChildren, lgViewerRef, lgViewerDivRef>>
vars ==
  <<viewerVars, rmsdVars, rampVars, colorVars,
    parseVars, foldVars, pageVars, explainVars, dispVars, legacyVars>>

\* What each part of the program leaves alone.
nonViewerVars ==
  <<rmsdVars, rampVars, colorVars, parseVars,
    foldVars, pageVars, explainVars, dispVars, legacyVars>>
nonRmsdVars ==
  <<viewerVars, rampVars, colorVars, parseVars,
    foldVars, pageVars, explainVars, dispVars, legacyVars>>
nonRampVars ==
  <<viewerVars, rmsdVars, colorVars, parseVars,
    foldVars, pageVars, explainVars, dispVars, legacyVars>>
nonColorVars ==
  <<viewerVars, rmsdVars, rampVars, parseVars,
    foldVars, pageVars, explainVars, dispVars, legacyVars>>
nonParseVars ==
  <<viewerVars, rmsdVars, rampVars, colorVars,
    foldVars, pageVars, explainVars, dispVars, legacyVars>>
nonFoldVars ==
  <<viewerVars, rmsdVars, rampVars, colorVars,
    parseVars, pageVars, explainVars, dispVars, legacyVars>>
nonPageVars ==
  <<viewerVars, rmsdVars, rampVars, colorVars,
    parseVars, foldVars, explainVars, dispVars, legacyVars>>
nonExplainVars ==
  <<viewerVars, rmsdVars, rampVars, colorVars,
    parseVars, foldVars, pageVars, dispVars, legacyVars>>
nonDispVars ==
  <<viewerVars, rmsdVars, rampVars, colorVars,
    parseVars, foldVars, pageVars, explainVars, legacyVars>>
nonLegacyVars ==
  <<viewerVars, rmsdVars, rampVars, colorVars,
    parseVars, foldVars, pageVars, explainVars, dispVars>>

\* Boolean(mutantPdbData): null, undefined and "" are falsy.
IsDualOf(m) == m \notin {NullV, UndefV, ""}

\* const isDual = Boolean(mutantPdbData)
IsDual(p) == IsDualOf(p.mutantPdbData)

PropsSet == [pdbData : PdbTexts, mutantPdbData : MutantTexts,
             mutationPosition : Positions]

(* ----------------------- the external viewer engine ------------------- *)

EngineOps == {"createViewer", "addModel", "setStyle", "render", "zoomTo", "zoom"}

\* The engine is deterministic: a given build either works or throws at one
\* of its calls, on the first (nth = 1) or the second (nth = 2) viewer a
\* cycle builds.
NoFault == [op |-> "none", nth |-> 0]
Faults == {NoFault} \cup [op : EngineOps, nth : {1, 2}]

\* One call made on a viewer instance, as the engine sees it.
Call(op, text, resi, style, factor) ==
  [op |-> op, text |-> text, resi |-> resi, style |-> style, factor |-> factor]

\* styleWildType(viewer, pos): cartoon by pLDDT on everything, then the
\* magenta marker layered on the mutation residue.
StyleWildType(pos) ==
  << Call("setStyle", "", AllAtoms, "plddt", 0),
     Call("setStyle", "", pos, "plddt+marker", 0) >>

\* Mutant of SingleCalls: the styles are applied before the model is loaded.
SingleCallsStyleFirst(cy) ==
  StyleWildType(cy.mutationPosition)
  \o << Call("addModel", cy.pdbData, AllAtoms, "", 0),
        Call("render", "", AllAtoms, "", 0),
        Call("zoomTo", "", cy.mutationPosition, "", 0),
        Call("zoom", "", AllAtoms, "", ZoomFactorTenths),
        Call("render", "", AllAtoms, "", 0) >>

\* Single mode: the calls made on the viewer after createViewer.
SingleCalls(cy) ==
  << Call("addModel", cy.pdbData, AllAtoms, "", 0) >>
  \o StyleWildType(cy.mutationPosition)
  \o << Call("render", "", AllAtoms, "", 0),
        Call("zoomTo", "", cy.mutationPosition, "", 0),
        Call("zoom", "", AllAtoms, "", ZoomFactorTenths),
        Call("render", "", AllAtoms, "", 0) >>

\* Mutant of WildCalls: zoomTo() frames the whole structure.
WildCallsZoomsWholeStructure(cy) ==
  << Call("addModel", cy.pdbData, AllAtoms, "", 0) >>
  \o StyleWildType(cy.mutationPosition)
  \o << Call("render", "", AllAtoms, "", 0),
        Call("zoomTo", "", AllAtoms, "", 0),
        Call("zoom", "", AllAtoms, "", ZoomFactorTenths),
        Call("render", "", AllAtoms, "", 0) >>

\* Dual mode, left panel: the calls made on wViewer after createViewer.
WildCalls(cy) ==
  << Call("addModel", cy.pdbData, AllAtoms, "", 0) >>
  \o StyleWildType(cy.mutationPosition)
  \o << Call("render", "", AllAtoms, "", 0),
        Call("zoomTo", "", cy.mutationPosition, "", 0),
        Call("zoom", "", AllAtoms, "", ZoomFactorTenths),
        Call("render", "", AllAtoms, "", 0) >>

\* Mutant of MutantCalls: the right panel loads the wild-type text.
MutantCallsLoadsWildText(cy) ==
  << Call("addModel", cy.pdbData, AllAtoms, "", 0),
     Call("setStyle", "", AllAtoms, "rmsd", 0),
     Call("setStyle", "", cy.mutationPosition, "rmsd+marker", 0),
     Call("render", "", AllAtoms, "", 0),
     Call("zoomTo", "", cy.mutationPosition, "", 0),
     Call("zoom", "", AllAtoms, "", ZoomFactorTenths),
     Call("render", "", AllAtoms, "", 0) >>

\* Dual mode, right panel: the calls made on mViewer after createViewer.
MutantCalls(cy) ==
  << Call("addModel", cy.mutantPdbData, AllAtoms, "", 0),
     Call("setStyle", "", AllAtoms, "rmsd", 0),
     Call("setStyle", "", cy.mutationPosition, "rmsd+marker", 0),
     Call("render", "", AllAtoms, "", 0),
     Call("zoomTo", "", cy.mutationPosition, "", 0),
     Call("zoom", "", AllAtoms, "", ZoomFactorTenths),
     Call("render", "", AllAtoms, "", 0) >>

\* Index of the first call of `calls` that throws on the nth viewer of a
\* cycle; Len(calls) + 1 when none does.
FirstThrow(fault, calls, nth) ==
  LET hit == {i \in 1..Len(calls) : fault.nth = nth /\ calls[i].op = fault.op}
  IN IF hit = {} THEN Len(calls) + 1
     ELSE CHOOSE i \in hit : \A j \in hit : i <= j

(* --------------------- coordinate maps (JS Map) ----------------------- *)

\* A Map<number, {x, y, z}> is its entries in insertion order, keys distinct.
Residues == {10, 11, 12}
Coords == { [x |-> 0, y |-> 0, z |-> 0], [x |-> 1, y |-> 0, z |-> 0],
            [x |-> 0, y |-> 0, z |-> 3], [x |-> 5, y |-> 5, z |-> 5] }

MapKeys(m) == {m[i].k : i \in 1..Len(m)}
MapHas(m, k) == k \in MapKeys(m)
MapGet(m, k) == m[CHOOSE i \in 1..Len(m) : m[i].k = k].v

\* Map.prototype.set: an existing key keeps its place, a new one goes last.
MapSet(m, k, v) ==
  IF MapHas(m, k)
    THEN [i \in 1..Len(m) |-> IF m[i].k = k THEN [k |-> k, v |-> v] ELSE m[i]]
    ELSE Append(m, [k |-> k, v |-> v])

OrderedMaps ==
  {m \in UNION {[1..n -> [k : Residues, v : Coords]] : n \in 0..MaxMapLen} :
     \A i, j \in 1..Len(m) : m[i].k = m[j].k => i = j}

\* Math.sqrt on the integer grid of the model: the root in whole units,
\* rounded down (exact on perfect squares).
RECURSIVE SqrtAbove(_, _)
SqrtAbove(n, r) == IF r * r > n THEN r ELSE SqrtAbove(n, 2 * r)

RECURSIVE SqrtBetween(_, _, _)
SqrtBetween(n, lo, hi) ==
  IF hi - lo <= 1 THEN lo
  ELSE LET mid == (lo + hi) \div 2
       IN IF mid * mid <= n THEN SqrtBetween(n, mid, hi) ELSE SqrtBetween(n, lo, mid)

\* The r with r * r <= n < (r + 1) * (r + 1), found by bisection.
MathSqrt(n) == SqrtBetween(n, 0, SqrtAbove(n, 1))

\* Mutant of RmsdStep: a residue missing from the mutant map is zero-filled.
RmsdStepZeroFills(acc, e, mutant) ==
  IF ~MapHas(mutant, e.k) THEN MapSet(acc, e.k, 0)
  ELSE LET mCoord == MapGet(mutant, e.k)
           dx == e.v.x - mCoord.x
           dy == e.v.y - mCoord.y
           dz == e.v.z - mCoord.z
       IN MapSet(acc, e.k, MathSqrt(dx * dx + dy * dy + dz * dz))

\* Mutant of RmsdStep: the z difference forgets the mutant coordinate.
RmsdStepForgetsMutantZ(acc, e, mutant) ==
  IF ~MapHas(mutant, e.k) THEN acc
  ELSE LET mCoord == MapGet(mutant, e.k)
           dx == e.v.x - mCoord.x
           dy == e.v.y - mCoord.y
           dz == e.v.z
       IN MapSet(acc, e.k, MathSqrt(dx * dx + dy * dy + dz * dz))

\* The loop body of computePerResidueRmsd for one entry of wildCa.
RmsdStep(acc, e, mutant) ==
  IF ~MapHas(mutant, e.k) THEN acc
  ELSE LET mCoord == MapGet(mutant, e.k)
           dx == e.v.x - mCoord.x
           dy == e.v.y - mCoord.y
           dz == e.v.z - mCoord.z
       IN MapSet(acc, e.k, MathSqrt(dx * dx + dy * dy + dz * dz))

RECURSIVE RmsdLoop(_, _, _)
RmsdLoop(acc, wild, mutant) ==
  IF wild = <<>> THEN acc
  ELSE RmsdLoop(RmsdStep(acc, Head(wild), mutant), Tail(wild), mutant)

\* computePerResidueRmsd(wildCa, mutantCa)
ComputePerResidueRmsd(wild, mutant) == RmsdLoop(<<>>, wild, mutant)

(* ------------------------------ the DOM ------------------------------- *)

\* ref.current of singleWrapperRef / wildWrapperRef / mutantWrapperRef: the
\* wrapper element of the JSX branch that is rendered, null otherwise.
RefCurrent(w, role) ==
  /\ w.mounted
  /\ IF role = "single" THEN ~IsDual(w.props) ELSE IsDual(w.props)

NoChildren == [r \in Roles |-> {}]

(* ----------------------------- one cycle ------------------------------ *)

NoNode == [r \in Roles |-> 0]

\* The closure of one effect run: the props it captured, `cancelled`,
\* the three *MolDiv and the three *Viewer variables (0 is null), and what
\* load3Dmol captured: its own `cancelled` and which return branch it took.
NewCycle(p, ready, script) ==
  [pdbData |-> p.pdbData, mutantPdbData |-> p.mutantPdbData,
   mutationPosition |-> p.mutationPosition, isDual |-> IsDual(p),
   cancelled |-> FALSE, molDiv |-> NoNode, viewer |-> NoNode,
   loadCancelled |-> FALSE, loadBranch |-> "none", hasCleanup |-> FALSE,
   readyAtCall |-> ready, scriptAtCall |-> script, onReadyCalls |-> 0, lateCalls |-> 0,
   threw |-> FALSE, initDone |-> FALSE, pendingAtCleanup |-> FALSE]

\* makeMolDiv(wrapper), createViewer(div, ...), the calls on the viewer and
\* the assignment to singleViewer / wildViewer / mutantViewer. A throwing
\* engine call ends the callback: the calls made so far have happened.
MakeViewer(w, c, role, nth, calls) ==
  LET divId == Len(w.divs) + 1
      w1 == [w EXCEPT !.divs = Append(@, [cyc |-> c, role |-> role]),
                      !.wrapperChildren[role] = @ \cup {divId},
                      !.cycles[c].molDiv[role] = divId]
      createThrows == w.engineFault.nth = nth /\ w.engineFault.op = "createViewer"
      k == FirstThrow(w.engineFault, calls, nth)
      vId == Len(w.viewers) + 1
      w2 == IF createThrows THEN w1
            ELSE [w1 EXCEPT !.viewers =
                    Append(@, [cyc |-> c, role |-> role, div |-> divId,
                               engine |-> w.window3Dmol,
                               log |-> SubSeq(calls, 1, k - 1),
                               cleared |-> FALSE])]
  IN IF createThrows \/ k <= Len(calls)
       THEN [w2 EXCEPT !.cycles[c].threw = TRUE]
       ELSE [w2 EXCEPT !.cycles[c].viewer[role] = vId]

\* if (!cancelled) setLoading(false), at the end of either mode.
FinishInit(w, c) ==
  [w EXCEPT !.loading = IF w.cycles[c].cancelled THEN @ ELSE FALSE,
            !.cycles[c].initDone = TRUE]

\* Single mode branch of the callback.
SingleInit(w, c) ==
  IF ~RefCurrent(w, "single") THEN w
  ELSE LET w1 == MakeViewer(w, c, "single", 1, SingleCalls(w.cycles[c]))
       IN IF w1.cycles[c].threw THEN w1 ELSE FinishInit(w1, c)

\* Dual mode branch of the callback.
DualInit(w, c) ==
  IF \/ ~RefCurrent(w, "wild") \/ ~RefCurrent(w, "mutant")
     \/ ~IsDualOf(w.cycles[c].mutantPdbData)
  THEN w
  ELSE LET w1 == MakeViewer(w, c, "wild", 1, WildCalls(w.cycles[c]))
       IN IF w1.cycles[c].threw THEN w1
          ELSE LET w2 == MakeViewer(w1, c, "mutant", 2, MutantCalls(w1.cycles[c]))
               IN IF w2.cycles[c].threw THEN w2 ELSE FinishInit(w2, c)

\* The callback handed to load3Dmol.
OnReady(w, c) ==
  LET w0 == [w EXCEPT !.cycles[c].onReadyCalls = @ + 1,
                      !.cycles[c].lateCalls =
                         IF w.cycles[c].loadCancelled THEN @ + 1 ELSE @]
  IN IF w0.cycles[c].cancelled THEN w0
     ELSE IF ~w0.window3Dmol THEN w0
     ELSE IF ~w0.cycles[c].isDual THEN SingleInit(w0, c)
     ELSE DualInit(w0, c)

\* const fire = () => { if (!cancelled) onReady(); }
Fire(w, c) ==
  IF w.cycles[c].loadCancelled THEN w ELSE OnReady(w, c)

\* Mutant of Load3Dmol: no lookup of an existing script element.
Load3DmolAlwaysAppends(w, c) ==
  IF w.window3Dmol
    THEN [Fire(w, c) EXCEPT !.cycles[c].loadBranch = "ready"]
  ELSE [w EXCEPT !.scriptAppends = @ + 1,
                 !.scriptState = "loading",
                 !.loadListeners = Append(@, c),
                 !.cycles[c].loadBranch = "created"]

\* Mutant of Load3Dmol: a ready engine is not noticed, onReady is enqueued
\* on the script element whose load event has already fired.
Load3DmolAlwaysEnqueues(w, c) ==
  IF w.scriptAppends > 0
    THEN [w EXCEPT !.loadListeners = Append(@, c),
                   !.cycles[c].loadBranch =
                      IF w.window3Dmol THEN "ready" ELSE "existing"]
  ELSE [w EXCEPT !.scriptAppends = @ + 1,
                 !.scriptState = "loading",
                 !.loadListeners = Append(@, c),
                 !.cycles[c].loadBranch = "created"]

\* Mutant of Load3Dmol: an existing script element is taken as a loaded one.
Load3DmolFiresOnExisting(w, c) ==
  IF w.window3Dmol
    THEN [Fire(w, c) EXCEPT !.cycles[c].loadBranch = "ready"]
  ELSE IF w.scriptAppends > 0
    THEN [Fire(w, c) EXCEPT !.cycles[c].loadBranch = "existing"]
  ELSE [w EXCEPT !.scriptAppends = @ + 1,
                 !.scriptState = "loading",
                 !.loadListeners = Append(@, c),
                 !.cycles[c].loadBranch = "created"]

\* load3Dmol(onReady), called by cycle c.
Load3Dmol(w, c) ==
  IF w.window3Dmol
    THEN [Fire(w, c) EXCEPT !.cycles[c].loadBranch = "ready"]
  ELSE IF w.scriptAppends > 0
    THEN IF w.window3Dmol
           THEN [Fire(w, c) EXCEPT !.cycles[c].loadBranch = "existing"]
           ELSE [w EXCEPT !.loadListeners = Append(@, c),
                          !.cycles[c].loadBranch = "existing"]
  ELSE [w EXCEPT !.scriptAppends = @ + 1,
                 !.scriptState = "loading",
                 !.loadListeners = Append(@, c),
                 !.cycles[c].loadBranch = "created"]

RemoveListener(ls, c) == SelectSeq(ls, LAMBDA x : x # c)

\* Mutant of Load3DmolCleanup: removeEventListener is forgotten.
Load3DmolCleanupKeepsListener(w, c) ==
  [w EXCEPT !.cycles[c].loadCancelled = TRUE]

\* The function load3Dmol returned.
Load3DmolCleanup(w, c) ==
  IF w.cycles[c].loadBranch = "ready"
    THEN [w EXCEPT !.cycles[c].loadCancelled = TRUE]
    ELSE [w EXCEPT !.cycles[c].loadCancelled = TRUE,
                   !.loadListeners = RemoveListener(@, c)]

\* if (xViewer) { xViewer.clear(); xViewer = null; }
ClearViewer(w, c, role) ==
  LET v == w.cycles[c].viewer[role]
  IN IF v = 0 THEN w
     ELSE [w EXCEPT !.viewers[v].cleared = TRUE, !.cycles[c].viewer[role] = 0]

\* if (xMolDiv && xWrapperRef.current?.contains(xMolDiv)) removeChild(xMolDiv)
RemoveDiv(w, c, role) ==
  LET d == w.cycles[c].molDiv[role]
  IN IF d # 0 /\ RefCurrent(w, role) /\ d \in w.wrapperChildren[role]
       THEN [w EXCEPT !.wrapperChildren[role] = @ \ {d}]
       ELSE w

\* The cleanup function the effect returned.
EffectCleanup(w, c) ==
  LET w0 == [w EXCEPT !.cycles[c].cancelled = TRUE,
                      !.cycles[c].pendingAtCleanup =
                         w.cycles[c].onReadyCalls = 0]
      w1 == Load3DmolCleanup(w0, c)
      w2 == ClearViewer(ClearViewer(ClearViewer(w1, c, "single"), c, "wild"),
                        c, "mutant")
  IN RemoveDiv(RemoveDiv(RemoveDiv(w2, c, "single"), c, "wild"), c, "mutant")

\* React, when an effect body throws: the tree is unmounted; the effect
\* that threw has returned no cleanup function.
CrashTree(w) ==
  [w EXCEPT !.mounted = FALSE, !.crashed = TRUE,
            !.wrapperChildren = NoChildren]

\* Mutant of EffectBody: setLoading(true) is left out.
EffectBodyKeepsLoading(w) ==
  LET c == Len(w.cycles) + 1
      w0 == [w EXCEPT !.cycles = Append(@, NewCycle(w.props, w.window3Dmol,
                                                 w.scriptState))]
      w1 == Load3Dmol(w0, c)
  IN IF w1.cycles[c].threw THEN CrashTree(w1)
     ELSE [w1 EXCEPT !.cycles[c].hasCleanup = TRUE]

\* The effect body: a new closure, setLoading(true), load3Dmol(callback).
EffectBody(w) ==
  LET c == Len(w.cycles) + 1
      w0 == [w EXCEPT !.cycles = Append(@, NewCycle(w.props, w.window3Dmol,
                                                 w.scriptState)),
                      !.loading = TRUE]
      w1 == Load3Dmol(w0, c)
  IN IF w1.cycles[c].threw THEN CrashTree(w1)
     ELSE [w1 EXCEPT !.cycles[c].hasCleanup = TRUE]

\* The cycle whose cleanup React still holds, 0 when none.
CurrentCycle(w) ==
  IF w.cycles # <<>> /\ w.cycles[Len(w.cycles)].hasCleanup
     /\ ~w.cycles[Len(w.cycles)].cancelled
  THEN Len(w.cycles) ELSE 0

(* ------------------------------ actions ------------------------------- *)

World ==
  [mounted |-> mounted, crashed |-> crashed, props |-> props,
   loading |-> loading, window3Dmol |-> window3Dmol,
   scriptState |-> scriptState, scriptAppends |-> scriptAppends,
   loadListeners |-> loadListeners, engineFault |-> engineFault,
   cycles |-> cycles, viewers |-> viewers, divs |-> divs,
   wrapperChildren |-> wrapperChildren]

Become(w) ==
  /\ mounted' = w.mounted
  /\ crashed' = w.crashed
  /\ props' = w.props
  /\ loading' = w.loading
  /\ window3Dmol' = w.window3Dmol
  /\ scriptState' = w.scriptState
  /\ scriptAppends' = w.scriptAppends
  /\ loadListeners' = w.loadListeners
  /\ engineFault' = w.engineFault
  /\ cycles' = w.cycles
  /\ viewers' = w.viewers
  /\ divs' = w.divs
  /\ wrapperChildren' = w.wrapperChildren

\* The dependency array [pdbData, mutantPdbData, mutationPosition, isDual].
DepsChanged(p, q) ==
  \/ p.pdbData # q.pdbData
  \/ p.mutantPdbData # q.mutantPdbData
  \/ p.mutationPosition # q.mutationPosition
  \/ IsDual(p) # IsDual(q)

\* The page renders <StructureViewer> (a structure arrived): a fresh
\* instance, useState(true), fresh wrappers, then the first effect run.
Mount(p) ==
  /\ ~mounted /\ ~crashed
  /\ Len(cycles) < MaxCycles
  /\ Become(EffectBody([World EXCEPT !.mounted = TRUE, !.props = p,
                                     !.loading = TRUE,
                                     !.wrapperChildren = NoChildren]))
  /\ UNCHANGED nonViewerVars

\* A render with changed dependencies: React commits the new JSX (a mode
\* switch replaces the wrapper elements), then runs the previous cleanup and
\* the effect body.
ChangeInputs(p) ==
  /\ mounted
  /\ Len(cycles) < MaxCycles
  /\ DepsChanged(props, p)
  /\ LET w0 == [World EXCEPT !.props = p,
                             !.wrapperChildren =
                                IF IsDual(p) # IsDual(props) THEN NoChildren ELSE @]
         c == CurrentCycle(World)
         w1 == IF c = 0 THEN w0 ELSE EffectCleanup(w0, c)
     IN Become(EffectBody(w1))
  /\ UNCHANGED nonViewerVars

\* The page stops rendering the component: the wrappers leave the document,
\* the refs are nulled, the cleanup runs.
Unmount ==
  /\ mounted
  /\ LET w0 == [World EXCEPT !.mounted = FALSE, !.wrapperChildren = NoChildren]
         c == CurrentCycle(World)
     IN Become(IF c = 0 THEN w0 ELSE EffectCleanup(w0, c))
  /\ UNCHANGED nonViewerVars

\* Every listener registered when the event is dispatched, in order.
RECURSIVE Dispatch(_, _)
Dispatch(w, ls) ==
  IF ls = <<>> THEN w
  ELSE Dispatch(IF \E i \in 1..Len(w.loadListeners) : w.loadListeners[i] = Head(ls)
                  THEN Fire(w, Head(ls)) ELSE w,
                Tail(ls))

\* The script has run and its load event fires. A script that ran defines
\* window.$3Dmol, unless what the CDN served is not the engine.
ScriptLoad(defines, fault) ==
  /\ scriptState = "loading"
  /\ defines \/ fault = NoFault
  /\ Become(Dispatch([World EXCEPT !.scriptState = "loaded",
                                   !.window3Dmol = defines,
                                   !.engineFault = fault],
                     loadListeners))
  /\ UNCHANGED nonViewerVars

\* The script fails to load: an error event, never a load event.
ScriptError ==
  /\ scriptState = "loading"
  /\ scriptState' = "failed"
  /\ UNCHANGED <<mounted, crashed, props, loading, window3Dmol, scriptAppends,
                 loadListeners, engineFault, cycles, viewers, divs,
                 wrapperChildren>>
  /\ UNCHANGED nonViewerVars

ViewerInit ==
  /\ mounted = FALSE
  /\ crashed = FALSE
  /\ props = [pdbData |-> "wA", mutantPdbData |-> NullV, mutationPosition |-> 1]
  /\ loading = TRUE
  /\ window3Dmol = FALSE
  /\ scriptState = "none"
  /\ scriptAppends = 0
  /\ loadListeners = <<>>
  /\ engineFault = NoFault
  /\ cycles = <<>>
  /\ viewers = <<>>
  /\ divs = <<>>
  /\ wrapperChildren = NoChildren

RmsdIdle ==
  /\ wildCa = <<>>
  /\ mutantCa = <<>>
  /\ rmsdMap = <<>>
  /\ rmsdSwap = <<>>
  /\ rmsdPc = "idle"

NoColor == [r |-> 0, g |-> 0, b |-> 0]

RampIdle ==
  /\ rampIn = 0
  /\ rampOut = NoColor
  /\ rampPc = "idle"

ColorIdle ==
  /\ cfMap = <<>>
  /\ cfResi = 0
  /\ cfAll = NoColor
  /\ cfSite = NoColor
  /\ cfPc = "idle"

ParseIdle ==
  /\ pdbLines = <<>>
  /\ pdbText = ""
  /\ caAtoms = <<>>
  /\ parsePc = "idle"

\* A JSON number n, or n + 1/2 when half; or undefined; or null.
Number(n, half) == [t |-> "number", n |-> n, half |-> half]
Undefined == [t |-> "undefined", n |-> 0, half |-> FALSE]
Null == [t |-> "null", n |-> 0, half |-> FALSE]

\* A request: body is "object", "null" (the JSON value null) or "invalid"
\* (not JSON); the fields are those of the object, UndefV when absent.
Request(body, sequence, position, original, mutant) ==
  [body |-> body, sequence |-> sequence, position |-> position,
   original |-> original, mutant |-> mutant]
NoRequest == Request("none", UndefV, Undefined, UndefV, UndefV)
NoResponse == [status |-> 0, body |-> "none"]

FoldIdle ==
  /\ foldReq = NoRequest
  /\ foldPc = "idle"
  /\ foldSent = <<>>
  /\ foldResolved = 0
  /\ foldResp = NoResponse
  /\ foldService = "none"
  /\ foldThrown = FALSE

\* The page: a mutation as parseMutation returns it (ok is FALSE for null),
\* the protein and structure held in state (set is FALSE for null; run is
\* the submit that stored it), and the explanation ("" has kind "empty").
NoMutation == [ok |-> FALSE, gene |-> "", original |-> "", position |-> 0, mutant |-> ""]
NoProtein == [set |-> FALSE, uniprotId |-> "", run |-> 0]
NoStructure == [set |-> FALSE, run |-> 0]
NoExplanation == [kind |-> "empty", of |-> 0]

PageIdle ==
  /\ pgQuery = ""
  /\ pgMutation = NoMutation
  /\ pgProtein = NoProtein
  /\ pgStructure = NoStructure
  /\ pgError = ""
  /\ pgLoading = FALSE
  /\ pgExplanation = NoExplanation
  /\ pgExplainLoading = FALSE
  /\ pgRuns = <<>>
  /\ pgRequests = <<>>
  /\ pgExplains = <<>>

\* The explain route: the body of a request holds the six text fields
\* (UndefV when absent) and plddt.
ExplainRequest(body, text, plddt) == [body |-> body, text |-> text, plddt |-> plddt]
TextFields == <<"proteinName", "geneName", "mutation", "domain", "alphamissense", "clinvar">>
TextNames == {TextFields[i] : i \in 1..Len(TextFields)}
NoExplainRequest == ExplainRequest("none", [f \in TextNames |-> UndefV], Undefined)
NoExplainResponse == [status |-> 0, body |-> "none", error |-> ""]

ExplainIdle ==
  /\ exReq = NoExplainRequest
  /\ exKey = UndefV
  /\ exPc = "idle"
  /\ exCalls = 0
  /\ exResp = NoExplainResponse
  /\ exService = "none"
  /\ exThrown = FALSE

DispIdle ==
  /\ dispWild = <<>>
  /\ dispMutant = <<>>
  /\ dispWildCa = <<>>
  /\ dispMutantCa = <<>>
  /\ dispMap = <<>>
  /\ dispPc = "idle"

LegacyIdle ==
  /\ lgMounted = FALSE
  /\ lgCrashed = FALSE
  /\ lgProps = [pdbData |-> "wA", mutationPosition |-> 1]
  /\ lgLoading = TRUE
  /\ lgWindow3Dmol = FALSE
  /\ lgScript = "none"
  /\ lgAppends = 0
  /\ lgListeners = <<>>
  /\ lgFault = NoFault
  /\ lgEffects = <<>>
  /\ lgViewers = <<>>
  /\ lgDivs = <<>>
  /\ lgChildren = {}
  /\ lgViewerRef = 0
  /\ lgViewerDivRef = 0

Init ==
  /\ ViewerInit /\ RmsdIdle /\ RampIdle /\ ColorIdle /\ ParseIdle /\ FoldIdle
  /\ PageIdle /\ ExplainIdle /\ DispIdle /\ LegacyIdle

Next ==
  \/ \E p \in PropsSet : Mount(p)
  \/ \E p \in PropsSet : ChangeInputs(p)
  \/ Unmount
  \/ \E d \in BOOLEAN, f \in Faults : ScriptLoad(d, f)
  \/ ScriptError

Spec == Init /\ [][Next]_vars

(* ---------------- computePerResidueRmsd on its own -------------------- *)

ComputeRmsd ==
  /\ rmsdPc = "input"
  /\ rmsdMap' = ComputePerResidueRmsd(wildCa, mutantCa)
  /\ rmsdSwap' = ComputePerResidueRmsd(mutantCa, wildCa)
  /\ rmsdPc' = "done"
  /\ UNCHANGED <<wildCa, mutantCa>>
  /\ UNCHANGED nonRmsdVars

RmsdInit ==
  /\ ViewerInit /\ RampIdle /\ ColorIdle /\ ParseIdle /\ FoldIdle
  /\ PageIdle /\ ExplainIdle /\ DispIdle /\ LegacyIdle
  /\ wildCa \in OrderedMaps
  /\ mutantCa \in OrderedMaps
  /\ rmsdMap = <<>>
  /\ rmsdSwap = <<>>
  /\ rmsdPc = "input"

RmsdNext == ComputeRmsd

RmsdSpec == RmsdInit /\ [][RmsdNext]_vars

(* ------------------------ the displacement ramp ----------------------- *)

\* Math.round(p / q) for q > 0: the nearest integer, halves rounded up.
MathRound(p, q) == (2 * p + q) \div (2 * q)

\* Math.min
MathMin(a, b) == IF a <= b THEN a ELSE b

\* "rgb(" + r + "," + g + "," + b + ")"
Rgb(r, g, b) == [r |-> r, g |-> g, b |-> b]

\* Mutant of DisplacementColor: the upper branch divides by 5.
DisplacementColorRedLater(rmsd) ==
  IF rmsd < YellowAt * RampScale
    THEN Rgb(MathRound(Full, 1), MathRound(Full, 1),
             MathRound(Full * (YellowAt * RampScale - rmsd), YellowAt * RampScale))
    ELSE LET num == MathMin(rmsd - YellowAt * RampScale, 5 * RampScale)
             den == 5 * RampScale
         IN Rgb(Full, MathRound(Full * (den - num), den), 0)

\* The body of the mutant viewer's colorfunc after the lookup.  t is the
\* fraction num / den, so 255 * (1 - t) is 255 * (den - num) / den; in the
\* upper branch Math.min(t, 1) caps num at den.
DisplacementColor(rmsd) ==
  IF rmsd < YellowAt * RampScale
    THEN Rgb(MathRound(Full, 1), MathRound(Full, 1),
             MathRound(Full * (YellowAt * RampScale - rmsd), YellowAt * RampScale))
    ELSE LET num == MathMin(rmsd - YellowAt * RampScale, RedSpan * RampScale)
             den == RedSpan * RampScale
         IN Rgb(Full, MathRound(Full * (den - num), den), 0)

RampInputs == (0 - NegRmsd * RampScale)..(MaxRmsd * RampScale)

ApplyRamp ==
  /\ rampPc = "input"
  /\ rampOut' = DisplacementColor(rampIn)
  /\ rampPc' = "done"
  /\ UNCHANGED rampIn
  /\ UNCHANGED nonRampVars

RampInit ==
  /\ ViewerInit /\ RmsdIdle /\ ColorIdle /\ ParseIdle /\ FoldIdle
  /\ PageIdle /\ ExplainIdle /\ DispIdle /\ LegacyIdle
  /\ rampIn \in RampInputs
  /\ rampOut = NoColor
  /\ rampPc = "input"

RampNext == ApplyRamp

RampSpec == RampInit /\ [][RampNext]_vars

(* ----------------------- the two color callbacks ---------------------- *)

\* The body of the highlighted residue's colorfunc after the lookup.
SiteDisplacementColor(rmsd) ==
  IF rmsd < YellowAt * RampScale
    THEN Rgb(MathRound(Full, 1), MathRound(Full, 1),
             MathRound(Full * (YellowAt * RampScale - rmsd), YellowAt * RampScale))
    ELSE LET num == MathMin(rmsd - YellowAt * RampScale, RedSpan * RampScale)
             den == RedSpan * RampScale
         IN Rgb(Full, MathRound(Full * (den - num), den), 0)

\* Mutant of WholeColorfunc: a residue without an entry counts as 5.
WholeColorfuncMissingIsFar(map, resi) ==
  LET rmsd == IF MapHas(map, resi) THEN MapGet(map, resi) ELSE 5 * RampScale
  IN DisplacementColor(rmsd)

\* colorfunc of mViewer.setStyle({}, ...): rmsdMap.get(atom.resi) ?? 0,
\* then the ramp.
WholeColorfunc(map, resi) ==
  LET rmsd == IF MapHas(map, resi) THEN MapGet(map, resi) ELSE 0
  IN DisplacementColor(rmsd)

\* colorfunc of mViewer.setStyle({ resi: mutationPosition }, ...)
SiteColorfunc(map, resi) ==
  LET rmsd == IF MapHas(map, resi) THEN MapGet(map, resi) ELSE 0
  IN SiteDisplacementColor(rmsd)

\* Values computePerResidueRmsd can leave in rmsdMap: none is negative.
DisplacementValues ==
  {0, RampScale - 3, YellowAt * RampScale, 3 * RampScale + 5, 6 * RampScale}

DisplacementMaps ==
  {m \in UNION {[1..n -> [k : Residues, v : DisplacementValues]] : n \in 0..MaxMapLen} :
     \A i, j \in 1..Len(m) : m[i].k = m[j].k => i = j}

\* atom.resi of the atoms of the mutant model: the residues the maps know
\* and one that no map holds.
AtomResidues == Residues \cup {13}

CallColorfuncs ==
  /\ cfPc = "input"
  /\ cfAll' = WholeColorfunc(cfMap, cfResi)
  /\ cfSite' = SiteColorfunc(cfMap, cfResi)
  /\ cfPc' = "done"
  /\ UNCHANGED <<cfMap, cfResi>>
  /\ UNCHANGED nonColorVars

ColorInit ==
  /\ ViewerInit /\ RmsdIdle /\ RampIdle /\ ParseIdle /\ FoldIdle
  /\ PageIdle /\ ExplainIdle /\ DispIdle /\ LegacyIdle
  /\ cfMap \in DisplacementMaps
  /\ cfResi \in AtomResidues
  /\ cfAll = NoColor
  /\ cfSite = NoColor
  /\ cfPc = "input"

ColorNext == CallColorfuncs

ColorSpec == ColorInit /\ [][ColorNext]_vars

(* --------------------------- JS strings ------------------------------- *)

\* s[i - 1]: the character at the 1-based place i.
CharAt(s, i) == SubSeq(s, i, i)

\* String.prototype.substring(a, b) for 0 <= a <= b: both ends are clamped
\* to the length.
Substring(s, a, b) ==
  LET lo == IF a > Len(s) THEN Len(s) ELSE a
      hi == IF b > Len(s) THEN Len(s) ELSE b
  IN SubSeq(s, lo + 1, hi)

\* String.prototype.startsWith
StartsWith(s, p) == Len(s) >= Len(p) /\ SubSeq(s, 1, Len(p)) = p

\* The white space String.prototype.trim removes (of what a text holds).
WhiteSpace == {" ", "\t", "\r", "\n"}

RECURSIVE TrimStart(_)
TrimStart(s) ==
  IF s # "" /\ CharAt(s, 1) \in WhiteSpace THEN TrimStart(SubSeq(s, 2, Len(s))) ELSE s

RECURSIVE TrimEnd(_)
TrimEnd(s) ==
  IF s # "" /\ CharAt(s, Len(s)) \in WhiteSpace
    THEN TrimEnd(SubSeq(s, 1, Len(s) - 1)) ELSE s

\* String.prototype.trim
Trim(s) == TrimEnd(TrimStart(s))

\* String.prototype.toUpperCase on one character.
Lower == "abcdefghijklmnopqrstuvwxyz"
Upper == "ABCDEFGHIJKLMNOPQRSTUVWXYZ"
UpperChar(c) ==
  IF \E i \in 1..26 : CharAt(Lower, i) = c
    THEN CharAt(Upper, CHOOSE i \in 1..26 : CharAt(Lower, i) = c)
    ELSE c

RECURSIVE ToUpperCase(_)
ToUpperCase(s) ==
  IF s = "" THEN "" ELSE UpperChar(CharAt(s, 1)) \o ToUpperCase(SubSeq(s, 2, Len(s)))

\* The place of the first line feed at or after i, 0 when there is none.
RECURSIVE NewlineAt(_, _)
NewlineAt(s, i) ==
  IF i > Len(s) THEN 0
  ELSE IF CharAt(s, i) = "\n" THEN i ELSE NewlineAt(s, i + 1)

\* String.prototype.split("\n")
RECURSIVE Split(_)
Split(s) ==
  LET n == NewlineAt(s, 1)
  IN IF n = 0 THEN <<s>>
     ELSE <<SubSeq(s, 1, n - 1)>> \o Split(SubSeq(s, n + 1, Len(s)))

(* --------------------------- JS numbers ------------------------------- *)

\* A number is NaN or a value; coordinates are held in thousandths.
NaN == [nan |-> TRUE, val |-> 0]
Num(v) == [nan |-> FALSE, val |-> v]
IsNaN(n) == n.nan

Digits == {"0", "1", "2", "3", "4", "5", "6", "7", "8", "9"}
DigitVal(c) == CHOOSE d \in 0..9 : CharAt("0123456789", d + 1) = c

\* The first place at or after i that holds no digit.
RECURSIVE DigitsEnd(_, _)
DigitsEnd(s, i) ==
  IF i <= Len(s) /\ CharAt(s, i) \in Digits THEN DigitsEnd(s, i + 1) ELSE i

RECURSIVE DecimalValue(_)
DecimalValue(d) ==
  IF d = "" THEN 0
  ELSE 10 * DecimalValue(SubSeq(d, 1, Len(d) - 1)) + DigitVal(CharAt(d, Len(d)))

\* parseInt(s, 10): white space, a sign, then the longest run of digits;
\* what follows the digits is ignored, and no digit at all gives NaN.
ParseInt(str) ==
  LET s == TrimStart(str)
      signed == s # "" /\ CharAt(s, 1) \in {"-", "+"}
      from == IF signed THEN 2 ELSE 1
      to == DigitsEnd(s, from)
      magnitude == DecimalValue(SubSeq(s, from, to - 1))
  IN IF to = from THEN NaN
     ELSE Num(IF signed /\ CharAt(s, 1) = "-" THEN 0 - magnitude ELSE magnitude)

\* parseFloat(s): white space, a sign, digits, a point, digits; what
\* follows is ignored, and no digit at all gives NaN.  The value is kept to
\* three decimals.
ParseFloat(str) ==
  LET s == TrimStart(str)
      signed == s # "" /\ CharAt(s, 1) \in {"-", "+"}
      from == IF signed THEN 2 ELSE 1
      to == DigitsEnd(s, from)
      pointed == to <= Len(s) /\ CharAt(s, to) = "."
      fracTo == IF pointed THEN DigitsEnd(s, to + 1) ELSE to
      frac == IF pointed THEN SubSeq(s, to + 1, fracTo - 1) ELSE ""
      magnitude == 1000 * DecimalValue(SubSeq(s, from, to - 1))
                   + DecimalValue(SubSeq(frac \o "000", 1, 3))
  IN IF to = from /\ frac = "" THEN NaN
     ELSE Num(IF signed /\ CharAt(s, 1) = "-" THEN 0 - magnitude ELSE magnitude)

(* ----------------------------- parseCaAtoms --------------------------- *)

\* Mutant of IsCoordinateLine: HETATM records count as well.
IsCoordinateLineOrHet(line) == StartsWith(line, "ATOM  ") \/ StartsWith(line, "HETATM")

\* line.startsWith("ATOM  ")
IsCoordinateLine(line) == StartsWith(line, "ATOM  ")

\* Mutant of IsCaName: every atom name is retained.
IsCaNameOrAny(atomName) == atomName = atomName

\* atomName !== "CA" is what skips the line.
IsCaName(atomName) == atomName = "CA"

\* Mutant of AllParsed: x is not looked at.
AllParsedButX(resi, x, y, z) == ~IsNaN(resi) /\ ~IsNaN(y) /\ ~IsNaN(z)

\* !isNaN(resi) && !isNaN(x) && !isNaN(y) && !isNaN(z)
AllParsed(resi, x, y, z) == ~IsNaN(resi) /\ ~IsNaN(x) /\ ~IsNaN(y) /\ ~IsNaN(z)

\* Mutant of ParseLine: a residue already in the map keeps its first
\* coordinates.
ParseLineKeepsFirst(atoms, line) ==
  IF ~IsCoordinateLine(line) THEN atoms
  ELSE LET atomName == Trim(Substring(line, 12, 16))
       IN IF ~IsCaName(atomName) THEN atoms
          ELSE LET resi == ParseInt(Trim(Substring(line, 22, 26)))
                   x == ParseFloat(Trim(Substring(line, 30, 38)))
                   y == ParseFloat(Trim(Substring(line, 38, 46)))
                   z == ParseFloat(Trim(Substring(line, 46, 54)))
               IN IF AllParsed(resi, x, y, z) /\ ~MapHas(atoms, resi.val)
                    THEN MapSet(atoms, resi.val, [x |-> x.val, y |-> y.val, z |-> z.val])
                    ELSE atoms

\* The loop body of parseCaAtoms for one line.
ParseLine(atoms, line) ==
  IF ~IsCoordinateLine(line) THEN atoms
  ELSE LET atomName == Trim(Substring(line, 12, 16))
       IN IF ~IsCaName(atomName) THEN atoms
          ELSE LET resi == ParseInt(Trim(Substring(line, 22, 26)))
                   x == ParseFloat(Trim(Substring(line, 30, 38)))
                   y == ParseFloat(Trim(Substring(line, 38, 46)))
                   z == ParseFloat(Trim(Substring(line, 46, 54)))
               IN IF AllParsed(resi, x, y, z)
                    THEN MapSet(atoms, resi.val, [x |-> x.val, y |-> y.val, z |-> z.val])
                    ELSE atoms

RECURSIVE ParseLoop(_, _)
ParseLoop(atoms, lines) ==
  IF lines = <<>> THEN atoms
  ELSE ParseLoop(ParseLine(atoms, Head(lines)), Tail(lines))

\* parseCaAtoms(pdb)
ParseCaAtoms(pdb) == ParseLoop(<<>>, Split(pdb))

\* Lines of a structure text.  Beside its text each carries what the line
\* is, read off the PDB column layout by hand: a coordinate record or not,
\* its atom name, its residue index and coordinates (in thousandths) where
\* it has them as numbers.
NoTriple == [x |-> 0, y |-> 0, z |-> 0]
Record(text, name, numeric, resi, x, y, z) ==
  [text |-> text, atom |-> TRUE, name |-> name, numeric |-> numeric,
   resi |-> resi, v |-> [x |-> x, y |-> y, z |-> z]]
Other(text) ==
  [text |-> text, atom |-> FALSE, name |-> "", numeric |-> FALSE,
   resi |-> 0, v |-> NoTriple]

CaTen == Record("ATOM      2  CA  ALA A  10       1.000   2.000   3.000  1.00 90.00",
  "CA", TRUE, 10, 1000, 2000, 3000)
CaTenMoved == Record("ATOM      3  CA  ALA A  10       4.000   0.000  -1.500  1.00 90.00",
  "CA", TRUE, 10, 4000, 0, 0 - 1500)
CaEleven == Record("ATOM      7  CA  GLY A  11       0.500   0.000   0.000  1.00 90.00",
  "CA", TRUE, 11, 500, 0, 0)
NTen == Record("ATOM      1  N   ALA A  10       9.000   9.000   9.000  1.00 90.00",
  "N", TRUE, 10, 9000, 9000, 9000)
CaNoResi == Record("ATOM      4  CA  ALA A           5.000   5.000   5.000  1.00 90.00",
  "CA", FALSE, 0, 5000, 5000, 5000)
CaBadX == Record("ATOM      5  CA  ALA A  12    ********   6.000   6.000  1.00 90.00",
  "CA", FALSE, 12, 0, 6000, 6000)
CaCut == Record("ATOM      6  CA  ALA A  12       8.000   8.000",
  "CA", FALSE, 12, 8000, 8000, 0)
\* The x field ends in a stray character; parseFloat reads the number
\* before it.
CaLoose == Record("ATOM      8  CA  ALA A  12      3.000?   3.000   3.000  1.00 90.00",
  "CA", TRUE, 12, 3000, 3000, 3000)
HetCa == Other("HETATM    9 CA    CA A  12       7.000   7.000   7.000  1.00 90.00")
Header == Other("HEADER    PROTEIN")
ShortAtom == Other("ATOM")
Blank == Other("")

SampleLines ==
  {CaTen, CaTenMoved, CaEleven, NTen, CaNoResi, CaBadX, CaCut, CaLoose,
   HetCa, Header, ShortAtom, Blank}

\* The text whose lines are these: the lines joined by line feeds.
RECURSIVE Join(_)
Join(lines) ==
  IF lines = <<>> THEN ""
  ELSE IF Len(lines) = 1 THEN lines[1].text
  ELSE lines[1].text \o "\n" \o Join(Tail(lines))

RunParseCaAtoms ==
  /\ parsePc = "input"
  /\ caAtoms' = ParseCaAtoms(pdbText)
  /\ parsePc' = "done"
  /\ UNCHANGED <<pdbLines, pdbText>>
  /\ UNCHANGED nonParseVars

ParseInit ==
  /\ ViewerInit /\ RmsdIdle /\ RampIdle /\ ColorIdle /\ FoldIdle
  /\ PageIdle /\ ExplainIdle /\ DispIdle /\ LegacyIdle
  /\ pdbLines \in UNION {[1..n -> SampleLines] : n \in 0..MaxLines}
  /\ pdbText = Join(pdbLines)
  /\ caAtoms = <<>>
  /\ parsePc = "input"

ParseNext == RunParseCaAtoms

ParseSpec == ParseInit /\ [][ParseNext]_vars

(* --------------------------- the ESMFold route ------------------------ *)

\* Boolean(s) of a string or of an absent field.
Truthy(s) == s \notin {UndefV, NullV, ""}

\* position < k and position > k for an integer k.
PosLess(position, k) == position.n < k
PosGreater(position, k) == IF position.half THEN position.n >= k ELSE position.n > k

\* What the handler does next: return a response, throw, or call fetch.
Return(status, body) ==
  [kind |-> "return", status |-> status, body |-> body, resolved |-> 0, sent |-> ""]
Throw == [kind |-> "throw", status |-> 0, body |-> "none", resolved |-> 0, sent |-> ""]
Fetch(resolved, sent) ==
  [kind |-> "fetch", status |-> 0, body |-> "none", resolved |-> resolved, sent |-> sent]

\* for (let offset = ...; offset <= 5; offset++): the 1-based position of
\* the first match, 0 when the loop ends with found still false.
RECURSIVE ScanOffsets(_, _, _, _)
ScanOffsets(sequence, position, original, offset) ==
  IF offset > MaxShift THEN 0
  ELSE IF offset = 0 THEN ScanOffsets(sequence, position, original, offset + 1)
  ELSE LET idx == position - 1 + offset
       IN IF idx < 0 \/ idx >= Len(sequence)
            THEN ScanOffsets(sequence, position, original, offset + 1)
          ELSE IF ToUpperCase(CharAt(sequence, idx + 1)) = ToUpperCase(original)
            THEN idx + 1
          ELSE ScanOffsets(sequence, position, original, offset + 1)

\* Step 3 for an integer position inside the sequence: resolvedPosition, 0
\* when nothing is found.
ResolvePosition(sequence, position, original) ==
  LET actual == CharAt(sequence, position)
  IN IF ToUpperCase(actual) # ToUpperCase(original)
       THEN ScanOffsets(sequence, position, original, 0 - MaxShift)
       ELSE position

\* Step 5: the mutant sequence.
MutantSequence(sequence, resolvedPosition, mutant) ==
  Substring(sequence, 0, resolvedPosition - 1) \o ToUpperCase(mutant)
    \o Substring(sequence, resolvedPosition, Len(sequence))

\* The handler from the destructuring of the body to the call of fetch.
\* Destructuring null throws; with a position that is no integer
\* sequence[position - 1] is undefined and actual.toUpperCase() throws.
BeforeFetch(req) ==
  IF req.body = "null" THEN Throw
  ELSE IF \/ ~Truthy(req.sequence)
          \/ req.position.t = "undefined" \/ req.position.t = "null"
          \/ ~Truthy(req.original) \/ ~Truthy(req.mutant)
    THEN Return(400, "missing")
  ELSE IF PosLess(req.position, 1) \/ PosGreater(req.position, Len(req.sequence))
    THEN Return(400, "range")
  ELSE IF req.position.half THEN Throw
  ELSE LET resolvedPosition == ResolvePosition(req.sequence, req.position.n, req.original)
       IN IF resolvedPosition = 0 THEN Return(400, "notFound")
          ELSE IF Len(req.sequence) > SeqLimit THEN Return(400, "tooLong")
          ELSE Fetch(resolvedPosition,
                     MutantSequence(req.sequence, resolvedPosition, req.mutant))

\* } catch (error) { return NextResponse.json({ error: message }, { status: 500 }) }
OuterCatch(o) == IF o.kind = "throw" THEN Return(500, "caught") ELSE o

\* The handler ends: with a response, or with the exception that got out.
Finish(o) ==
  LET out == OuterCatch(o)
  IN /\ foldPc' = "done"
     /\ foldThrown' = (out.kind = "throw")
     /\ foldResp' = IF out.kind = "throw" THEN NoResponse
                     ELSE [status |-> out.status, body |-> out.body]

\* Request bodies.  A long sequence is "MR" followed by alanines.
RECURSIVE Rep(_, _)
Rep(c, n) ==
  IF n <= 0 THEN ""
  ELSE LET half == Rep(c, n \div 2)
       IN half \o half \o (IF n % 2 = 1 THEN c ELSE "")
Long(n) == "MR" \o Rep("A", n - 2)

FoldSequences == {UndefV, "", "MRAAAAKAARAA", "mkr", Long(SeqLimit), Long(SeqLimit + 1)}
FoldOriginals == {UndefV, "", "R", "r", "K", "A", "W"}
FoldMutants == {UndefV, "", "H", "h", "HH"}

NumbersFor(sequence) ==
  IF ~Truthy(sequence) THEN {1}
  ELSE IF Len(sequence) <= 20 THEN 0..(Len(sequence) + 1)
  ELSE {0, 1, 2, 7, Len(sequence) - 1, Len(sequence), Len(sequence) + 1}

PositionsFor(sequence) ==
  {Undefined, Null} \cup {Number(n, half) : n \in NumbersFor(sequence), half \in BOOLEAN}

Requests ==
  {Request("null", UndefV, Undefined, UndefV, UndefV),
   Request("invalid", UndefV, Undefined, UndefV, UndefV)}
  \cup UNION {{Request("object", s, p, o, m) :
                 p \in PositionsFor(s), o \in FoldOriginals, m \in FoldMutants} :
              s \in FoldSequences}

\* await request.json() resolves; the handler runs up to its next await.
JsonResolved ==
  /\ foldPc = "parsing"
  /\ foldReq.body # "invalid"
  /\ LET o == BeforeFetch(foldReq)
     IN IF o.kind = "fetch"
          THEN /\ foldSent' = Append(foldSent, o.sent)
               /\ foldResolved' = o.resolved
               /\ foldPc' = "fetching"
               /\ foldService' = "pending"
               /\ UNCHANGED <<foldResp, foldThrown>>
          ELSE /\ Finish(o)
               /\ UNCHANGED <<foldSent, foldResolved, foldService>>
  /\ UNCHANGED foldReq
  /\ UNCHANGED nonFoldVars

\* await request.json() rejects: the body is not JSON.
JsonRejected ==
  /\ foldPc = "parsing"
  /\ foldReq.body = "invalid"
  /\ Finish(Throw)
  /\ UNCHANGED <<foldReq, foldSent, foldResolved, foldService>>
  /\ UNCHANGED nonFoldVars

\* await fetch(...) resolves with a response, ok or not; clearTimeout.
FetchResolved(ok) ==
  /\ foldPc = "fetching"
  /\ foldPc' = IF ok THEN "readingBody" ELSE "readingError"
  /\ foldService' = IF ok THEN "ok" ELSE "nonOk"
  /\ UNCHANGED <<foldReq, foldSent, foldResolved, foldResp, foldThrown>>
  /\ UNCHANGED nonFoldVars

\* The 120000 ms timer fires, controller.abort() rejects the fetch with an
\* AbortError.
FetchAborted ==
  /\ foldPc = "fetching"
  /\ foldService' = "timeout"
  /\ Finish(Return(500, "timedOut"))
  /\ UNCHANGED <<foldReq, foldSent, foldResolved>>
  /\ UNCHANGED nonFoldVars

\* The fetch rejects with any other error.
FetchFailed ==
  /\ foldPc = "fetching"
  /\ foldService' = "network"
  /\ Finish(Return(500, "connect"))
  /\ UNCHANGED <<foldReq, foldSent, foldResolved>>
  /\ UNCHANGED nonFoldVars

\* await response.text() resolves: the error text is returned with 500, or
\* the structure with avgPlddt in the default (200) response.
TextResolved ==
  /\ foldPc \in {"readingBody", "readingError"}
  /\ Finish(IF foldPc = "readingError" THEN Return(500, "errorText")
                                       ELSE Return(200, "pdbData"))
  /\ UNCHANGED <<foldReq, foldSent, foldResolved, foldService>>
  /\ UNCHANGED nonFoldVars

\* await response.text() rejects: the body was lost on the way.
TextRejected ==
  /\ foldPc \in {"readingBody", "readingError"}
  /\ Finish(Throw)
  /\ UNCHANGED <<foldReq, foldSent, foldResolved, foldService>>
  /\ UNCHANGED nonFoldVars

FoldInit ==
  /\ ViewerInit /\ RmsdIdle /\ RampIdle /\ ColorIdle /\ ParseIdle
  /\ PageIdle /\ ExplainIdle /\ DispIdle /\ LegacyIdle
  /\ foldReq \in Requests
  /\ foldPc = "parsing"
  /\ foldSent = <<>>
  /\ foldResolved = 0
  /\ foldResp = NoResponse
  /\ foldService = "none"
  /\ foldThrown = FALSE

FoldNext ==
  \/ JsonResolved
  \/ JsonRejected
  \/ \E ok \in BOOLEAN : FetchResolved(ok)
  \/ FetchAborted
  \/ FetchFailed
  \/ TextResolved
  \/ TextRejected

FoldSpec == FoldInit /\ [][FoldNext]_vars

(* ------------------------------ the page ------------------------------ *)

IsLetter(c) == \E i \in 1..26 : c = CharAt(Lower, i) \/ c = CharAt(Upper, i)
IsAlnum(c) == IsLetter(c) \/ c \in Digits

\* The first place at or after i that holds no letter or digit ([A-Za-z0-9]*)
\* and the first that holds no white space (\s+).
RECURSIVE AlnumEnd(_, _)
AlnumEnd(s, i) ==
  IF i <= Len(s) /\ IsAlnum(CharAt(s, i)) THEN AlnumEnd(s, i + 1) ELSE i

RECURSIVE SpaceEnd(_, _)
SpaceEnd(s, i) ==
  IF i <= Len(s) /\ CharAt(s, i) \in WhiteSpace THEN SpaceEnd(s, i + 1) ELSE i

\* parseMutation: /^([A-Za-z][A-Za-z0-9]*)\s+([A-Za-z])(\d+)([A-Za-z])$/ on
\* the trimmed input; null when it does not match.
ParseMutation(input) ==
  LET trimmed == Trim(input)
      geneEnd == AlnumEnd(trimmed, 1)
      from == SpaceEnd(trimmed, geneEnd)
      digitsEnd == DigitsEnd(trimmed, from + 1)
  IN IF /\ trimmed # "" /\ IsLetter(CharAt(trimmed, 1))
        /\ from > geneEnd
        /\ from <= Len(trimmed) /\ IsLetter(CharAt(trimmed, from))
        /\ digitsEnd > from + 1
        /\ digitsEnd = Len(trimmed) /\ IsLetter(CharAt(trimmed, digitsEnd))
       THEN [ok |-> TRUE,
             gene |-> ToUpperCase(SubSeq(trimmed, 1, geneEnd - 1)),
             original |-> ToUpperCase(CharAt(trimmed, from)),
             position |-> ParseInt(SubSeq(trimmed, from + 1, digitsEnd - 1)).val,
             mutant |-> ToUpperCase(CharAt(trimmed, digitsEnd))]
       ELSE NoMutation

\* What the user types, and the accessions a lookup answers with.
Queries == {"", "  ", "TP53 R175H", " brca1  c61g ", "TP53", "TP53 R175", "TP53 175H"}
Accessions == {"P04637", "P38398"}

\* One call of handleSubmit: where it waits (pc), what it parsed, the ok
\* flag of the response it is reading, lookupData.uniprotId, and how it
\* ended.
NewRun(parsed, pc, end) ==
  [pc |-> pc, parsed |-> parsed, resOk |-> FALSE, accession |-> "", end |-> end,
   lookup |-> IF pc = "lookup" THEN "pending" ELSE "none"]

\* Mutant of LookupFailed: the ok flag is not looked at.
LookupFailedNever(run) == FALSE

\* !lookupRes.ok
LookupFailed(run) == ~run.resOk

\* Mutant of FormDisabled: the form stays enabled.
FormNeverDisabled == FALSE

\* disabled={loading} on the input and on the submit button.
FormDisabled == pgLoading

\* fetch(url): the run that issued it, which route, and its parameter.
PageFetch(run, kind, arg) == [run |-> run, kind |-> kind, arg |-> arg]

\* onChange of the input, which is disabled while loading.
Type(q) ==
  /\ ~FormDisabled
  /\ q # pgQuery
  /\ pgQuery' = q
  /\ UNCHANGED <<pgMutation, pgProtein, pgStructure, pgError, pgLoading,
                 pgExplanation, pgExplainLoading, pgRuns, pgRequests, pgExplains>>
  /\ UNCHANGED nonPageVars

\* handleSubmit up to its first await.  The form is disabled while
\* loading.  The effect runs with mutation and protein or structure null
\* and returns at once.
Submit ==
  /\ ~FormDisabled
  /\ Len(pgRuns) < MaxSubmits
  /\ LET k == Len(pgRuns) + 1
         parsed == ParseMutation(pgQuery)
     IN /\ pgProtein' = NoProtein
        /\ pgStructure' = NoStructure
        /\ pgExplanation' = NoExplanation
        /\ IF Trim(pgQuery) = ""
             THEN /\ pgError' = "empty"
                  /\ pgMutation' = NoMutation
                  /\ pgRuns' = Append(pgRuns, NewRun(NoMutation, "done", "empty"))
                  /\ UNCHANGED <<pgLoading, pgRequests>>
           ELSE IF ~parsed.ok
             THEN /\ pgError' = "format"
                  /\ pgMutation' = NoMutation
                  /\ pgRuns' = Append(pgRuns, NewRun(NoMutation, "done", "format"))
                  /\ UNCHANGED <<pgLoading, pgRequests>>
           ELSE /\ pgError' = ""
                /\ pgMutation' = parsed
                /\ pgLoading' = TRUE
                /\ pgRequests' = Append(pgRequests, PageFetch(k, "lookup", parsed.gene))
                /\ pgRuns' = Append(pgRuns, NewRun(parsed, "lookup", "running"))
  /\ UNCHANGED <<pgQuery, pgExplainLoading, pgExplains>>
  /\ UNCHANGED nonPageVars

\* catch (err) { setError(...) } finally { setLoading(false) }
Caught(k) ==
  /\ pgError' = "thrown"
  /\ pgLoading' = FALSE
  /\ pgRuns' = [pgRuns EXCEPT ![k].pc = "done", ![k].end = "thrown",
                              ![k].lookup = IF pgRuns[k].pc = "lookup" THEN "rejected"
                                            ELSE IF pgRuns[k].pc = "lookupJson" THEN "unreadable"
                                            ELSE @]
  /\ UNCHANGED <<pgQuery, pgMutation, pgProtein, pgStructure, pgExplanation,
                 pgExplainLoading, pgRequests, pgExplains>>

\* await fetch(...) of run k settles: a response, ok or not, or a
\* rejection.
FetchSettled(k, outcome) ==
  /\ k \in 1..Len(pgRuns)
  /\ pgRuns[k].pc \in {"lookup", "structure"}
  /\ IF outcome = "rejected"
       THEN Caught(k)
       ELSE /\ pgRuns' = [pgRuns EXCEPT
                            ![k].pc = IF @ = "lookup" THEN "lookupJson" ELSE "structureJson",
                            ![k].resOk = (outcome = "ok")]
            /\ UNCHANGED <<pgQuery, pgMutation, pgProtein, pgStructure, pgError,
                           pgLoading, pgExplanation, pgExplainLoading, pgRequests,
                           pgExplains>>
  /\ UNCHANGED nonPageVars

\* await lookupRes.json() settles.
LookupJson(k, parses, uniprotId) ==
  /\ k \in 1..Len(pgRuns)
  /\ pgRuns[k].pc = "lookupJson"
  /\ IF ~parses THEN Caught(k)
     ELSE IF LookupFailed(pgRuns[k])
       THEN /\ pgError' = "lookup"
            /\ pgLoading' = FALSE
            /\ pgRuns' = [pgRuns EXCEPT ![k].pc = "done", ![k].end = "lookupFailed",
                                        ![k].lookup = "notOk"]
            /\ UNCHANGED <<pgQuery, pgMutation, pgProtein, pgStructure,
                           pgExplanation, pgExplainLoading, pgRequests, pgExplains>>
     ELSE /\ pgProtein' = [set |-> TRUE, uniprotId |-> uniprotId, run |-> k]
          /\ pgRequests' = Append(pgRequests, PageFetch(k, "structure", uniprotId))
          /\ pgRuns' = [pgRuns EXCEPT ![k].pc = "structure", ![k].accession = uniprotId,
                                      ![k].lookup = IF pgRuns[k].resOk THEN "ok" ELSE "notOk"]
          /\ UNCHANGED <<pgQuery, pgMutation, pgStructure, pgError, pgLoading,
                         pgExplanation, pgExplainLoading, pgExplains>>
  /\ UNCHANGED nonPageVars

\* await structRes.json() settles.  On success structure is set and the
\* effect, finding mutation, protein and structure, asks for the
\* explanation.
StructureJson(k, parses) ==
  /\ k \in 1..Len(pgRuns)
  /\ pgRuns[k].pc = "structureJson"
  /\ IF ~parses THEN Caught(k)
     ELSE IF ~pgRuns[k].resOk
       THEN /\ pgError' = "structure"
            /\ pgLoading' = FALSE
            /\ pgRuns' = [pgRuns EXCEPT ![k].pc = "done", ![k].end = "structureFailed"]
            /\ UNCHANGED <<pgQuery, pgMutation, pgProtein, pgStructure,
                           pgExplanation, pgExplainLoading, pgRequests, pgExplains>>
     ELSE /\ pgStructure' = [set |-> TRUE, run |-> k]
          /\ pgLoading' = FALSE
          /\ pgRuns' = [pgRuns EXCEPT ![k].pc = "done", ![k].end = "success"]
          /\ IF pgMutation.ok /\ pgProtein.set
               THEN /\ pgExplainLoading' = TRUE
                    /\ pgExplanation' = NoExplanation
                    /\ pgRequests' = Append(pgRequests, PageFetch(k, "explain", pgMutation.gene))
                    /\ pgExplains' = Append(pgExplains, [of |-> k, pending |-> TRUE])
               ELSE UNCHANGED <<pgExplainLoading, pgExplanation, pgRequests, pgExplains>>
          /\ UNCHANGED <<pgQuery, pgMutation, pgProtein, pgError>>
  /\ UNCHANGED nonPageVars

\* The explanation request i settles: .then / .catch set the explanation,
\* .finally clears explainLoading.  kind is "text" (data.explanation),
\* "none" (no explanation in the answer) or "failed" (rejected).
ExplainSettled(i, kind) ==
  /\ i \in 1..Len(pgExplains)
  /\ pgExplains[i].pending
  /\ pgExplains' = [pgExplains EXCEPT ![i].pending = FALSE]
  /\ pgExplanation' = [kind |-> kind, of |-> pgExplains[i].of]
  /\ pgExplainLoading' = FALSE
  /\ UNCHANGED <<pgQuery, pgMutation, pgProtein, pgStructure, pgError, pgLoading,
                 pgRuns, pgRequests>>
  /\ UNCHANGED nonPageVars

PageInit ==
  /\ ViewerInit /\ RmsdIdle /\ RampIdle /\ ColorIdle /\ ParseIdle /\ FoldIdle
  /\ PageIdle /\ ExplainIdle /\ DispIdle /\ LegacyIdle

PageNext ==
  \/ \E q \in Queries : Type(q)
  \/ Submit
  \/ \E k \in 1..MaxSubmits : \E outcome \in {"ok", "notOk", "rejected"} :
       FetchSettled(k, outcome)
  \/ \E k \in 1..MaxSubmits : \E parses \in BOOLEAN : \E a \in Accessions :
       LookupJson(k, parses, a)
  \/ \E k \in 1..MaxSubmits : \E parses \in BOOLEAN : StructureJson(k, parses)
  \/ \E i \in 1..MaxSubmits : \E kind \in {"text", "none", "failed"} :
       ExplainSettled(i, kind)

PageSpec == PageInit /\ [][PageNext]_vars

\* The promise a run of handleSubmit awaits settles: the fetch resolves or
\* rejects, the body is read or fails to parse.
Settle ==
  \E k \in 1..MaxSubmits :
    \/ \E outcome \in {"ok", "notOk", "rejected"} : FetchSettled(k, outcome)
    \/ \E parses \in BOOLEAN : \E a \in Accessions : LookupJson(k, parses, a)
    \/ \E parses \in BOOLEAN : StructureJson(k, parses)

\* The page where an awaited promise settles in the end.
PageFairSpec == PageInit /\ [][PageNext]_vars /\ WF_vars(Settle)

(* --------------------------- the explain route ----------------------- *)

\* The names pushed to `missing`, in the order of the seven checks.
FieldOrder ==
  <<"proteinName", "geneName", "mutation", "domain", "plddt", "alphamissense", "clinvar">>

\* !proteinName ... for the text fields, plddt === undefined || plddt === null.
IsMissing(req, name) ==
  IF name = "plddt"
    THEN req.plddt.t = "undefined" \/ req.plddt.t = "null"
    ELSE ~Truthy(req.text[name])

\* missing after the seven checks.
MissingOf(req) ==
  LET Test(name) == IsMissing(req, name)
  IN SelectSeq(FieldOrder, Test)

\* missing.join(", ")
RECURSIVE JoinNames(_)
JoinNames(names) ==
  IF names = <<>> THEN ""
  ELSE IF Len(names) = 1 THEN names[1]
  ELSE names[1] \o ", " \o JoinNames(Tail(names))

\* getGeminiApiKey throws when the key is unset, empty or the placeholder.
KeyUsable(key) == Truthy(key) /\ key # PlaceholderKey

ExplainReturn(status, body, error) == [status |-> status, body |-> body, error |-> error]

\* The handler ends with a response.
ExplainFinish(resp) ==
  /\ exPc' = "done"
  /\ exResp' = resp

\* await request.json() settles; the handler runs up to the fetch.  The
\* destructuring of a null body (line 15) is outside every try block.
ExplainJsonSettled ==
  /\ exPc = "parsing"
  /\ IF exReq.body = "invalid"
       THEN /\ ExplainFinish(ExplainReturn(400, "error", "Invalid JSON body"))
            /\ UNCHANGED <<exCalls, exService, exThrown>>
     ELSE IF exReq.body = "null"
       THEN /\ exPc' = "done"
            /\ exThrown' = TRUE
            /\ UNCHANGED <<exResp, exCalls, exService>>
     ELSE IF Len(MissingOf(exReq)) > 0
       THEN /\ ExplainFinish(ExplainReturn(400, "error",
                  "Missing required fields: " \o JoinNames(MissingOf(exReq))))
            /\ UNCHANGED <<exCalls, exService, exThrown>>
     ELSE IF ~KeyUsable(exKey)
       THEN /\ ExplainFinish(ExplainReturn(500, "error", "GEMINI_API_KEY is not set"))
            /\ UNCHANGED <<exCalls, exService, exThrown>>
     ELSE /\ exPc' = "fetching"
          /\ exCalls' = exCalls + 1
          /\ exService' = "pending"
          /\ UNCHANGED <<exResp, exThrown>>
  /\ UNCHANGED <<exReq, exKey>>
  /\ UNCHANGED nonExplainVars

\* await fetch(url, ...) settles.
GeminiSettled(outcome) ==
  /\ exPc = "fetching"
  /\ exService' = outcome
  /\ IF outcome = "rejected"
       THEN ExplainFinish(ExplainReturn(500, "error", "Gemini API request failed"))
       ELSE /\ exPc' = IF outcome = "ok" THEN "readingJson" ELSE "readingText"
            /\ UNCHANGED exResp
  /\ UNCHANGED <<exReq, exKey, exCalls, exThrown>>
  /\ UNCHANGED nonExplainVars

\* await geminiResponse.text() of a response that is not ok settles.
GeminiTextSettled(resolves) ==
  /\ exPc = "readingText"
  /\ ExplainFinish(IF resolves THEN ExplainReturn(500, "error", "Gemini API error")
                               ELSE ExplainReturn(500, "error", "Gemini API request failed"))
  /\ UNCHANGED <<exReq, exKey, exCalls, exService, exThrown>>
  /\ UNCHANGED nonExplainVars

\* await geminiResponse.json() settles: with explanation text at
\* candidates[0].content.parts[0].text, with "" or nothing there, or not
\* at all.
GeminiJsonSettled(data) ==
  /\ exPc = "readingJson"
  /\ exService' = IF data = "text" THEN "ok" ELSE data
  /\ ExplainFinish(IF data = "text" THEN ExplainReturn(200, "explanation", "")
                   ELSE IF data = "rejected"
                     THEN ExplainReturn(500, "error", "Gemini API request failed")
                   ELSE ExplainReturn(500, "error",
                          "Gemini API returned an unexpected response structure"))
  /\ UNCHANGED <<exReq, exKey, exCalls, exThrown>>
  /\ UNCHANGED nonExplainVars

TextValues == {UndefV, "", "v"}
PlddtValues == {Undefined, Null, Number(0, FALSE), Number(87, TRUE)}
ExplainRequests ==
  {ExplainRequest("invalid", [f \in TextNames |-> UndefV], Undefined),
   ExplainRequest("null", [f \in TextNames |-> UndefV], Undefined),
   ExplainRequest("scalar", [f \in TextNames |-> UndefV], Undefined)}
  \cup {ExplainRequest("object", t, p) : t \in [TextNames -> TextValues], p \in PlddtValues}
Keys == {UndefV, "", PlaceholderKey, "key"}

ExplainInit ==
  /\ ViewerInit /\ RmsdIdle /\ RampIdle /\ ColorIdle /\ ParseIdle /\ FoldIdle
  /\ PageIdle /\ DispIdle /\ LegacyIdle
  /\ exReq \in ExplainRequests
  /\ exKey \in Keys
  /\ exPc = "parsing"
  /\ exCalls = 0
  /\ exResp = NoExplainResponse
  /\ exService = "none"
  /\ exThrown = FALSE

ExplainNext ==
  \/ ExplainJsonSettled
  \/ \E outcome \in {"ok", "notOk", "rejected"} : GeminiSettled(outcome)
  \/ \E resolves \in BOOLEAN : GeminiTextSettled(resolves)
  \/ \E data \in {"text", "noText", "rejected"} : GeminiJsonSettled(data)

ExplainSpec == ExplainInit /\ [][ExplainNext]_vars

(* ------------------- dual mode: the displacements -------------------- *)

\* The lines the two structure texts are made of.
DispLines == {CaTen, CaTenMoved, CaEleven, NTen, CaBadX}

\* const wildCa = parseCaAtoms(pdbData);
\* const mutantCa = parseCaAtoms(mutantPdbData);
\* const rmsdMap = computePerResidueRmsd(wildCa, mutantCa);
Displace ==
  /\ dispPc = "input"
  /\ LET wild == ParseCaAtoms(Join(dispWild))
         mutant == ParseCaAtoms(Join(dispMutant))
     IN /\ dispWildCa' = wild
        /\ dispMutantCa' = mutant
        /\ dispMap' = ComputePerResidueRmsd(wild, mutant)
  /\ dispPc' = "done"
  /\ UNCHANGED <<dispWild, dispMutant>>
  /\ UNCHANGED nonDispVars

DispInit ==
  /\ ViewerInit /\ RmsdIdle /\ RampIdle /\ ColorIdle /\ ParseIdle /\ FoldIdle
  /\ PageIdle /\ ExplainIdle /\ LegacyIdle
  /\ dispWild \in UNION {[1..n -> DispLines] : n \in 0..MaxLines}
  /\ dispMutant \in UNION {[1..n -> DispLines] : n \in 0..MaxLines}
  /\ dispWildCa = <<>>
  /\ dispMutantCa = <<>>
  /\ dispMap = <<>>
  /\ dispPc = "input"

DispNext == Displace

DispSpec == DispInit /\ [][DispNext]_vars

(* ------------------------- the legacy viewer -------------------------- *)

LegacyPropsSet == [pdbData : PdbTexts, mutationPosition : Positions]

\* The calls initViewer makes on the viewer after createViewer.
LegacyCalls(p) ==
  << Call("addModel", p.pdbData, AllAtoms, "", 0),
     Call("setStyle", "", AllAtoms, "plddt", 0),
     Call("setStyle", "", p.mutationPosition, "plddt+sphere", 0),
     Call("zoomTo", "", AllAtoms, "", 0),
     Call("render", "", AllAtoms, "", 0) >>

LegacyWorld ==
  [mounted |-> lgMounted, crashed |-> lgCrashed, props |-> lgProps,
   loading |-> lgLoading, window3Dmol |-> lgWindow3Dmol, script |-> lgScript,
   appends |-> lgAppends, listeners |-> lgListeners, fault |-> lgFault,
   effects |-> lgEffects, viewers |-> lgViewers, divs |-> lgDivs,
   children |-> lgChildren, viewerRef |-> lgViewerRef,
   viewerDivRef |-> lgViewerDivRef]

LegacyBecome(w) ==
  /\ lgMounted' = w.mounted
  /\ lgCrashed' = w.crashed
  /\ lgProps' = w.props
  /\ lgLoading' = w.loading
  /\ lgWindow3Dmol' = w.window3Dmol
  /\ lgScript' = w.script
  /\ lgAppends' = w.appends
  /\ lgListeners' = w.listeners
  /\ lgFault' = w.fault
  /\ lgEffects' = w.effects
  /\ lgViewers' = w.viewers
  /\ lgDivs' = w.divs
  /\ lgChildren' = w.children
  /\ lgViewerRef' = w.viewerRef
  /\ lgViewerDivRef' = w.viewerDivRef

\* The closure of one run of the script-load effect: the initViewer it
\* captured (its pdbData and mutationPosition), `cancelled`, the branch it
\* returned from, and what happened to its tryInit.
NewEffect(p) ==
  [pdbData |-> p.pdbData, mutationPosition |-> p.mutationPosition,
   cancelled |-> FALSE, branch |-> "none", hasCleanup |-> FALSE,
   superseded |-> FALSE, tryInitCalls |-> 0, lateCalls |-> 0,
   threw |-> FALSE, initDone |-> FALSE]

\* if (viewerRef.current) { viewerRef.current.clear(); viewerRef.current = null; }
ClearViewerRef(w) ==
  IF w.viewerRef = 0 THEN w
  ELSE [w EXCEPT !.viewers[w.viewerRef].cleared = TRUE, !.viewerRef = 0]

\* initViewer of the render effect e captured.  wrapperRef.current is the
\* wrapper while the instance is mounted.
InitViewer(w, e) ==
  IF ~w.mounted \/ ~w.window3Dmol THEN w
  ELSE LET w0 == ClearViewerRef(w)
           w1 == IF w0.viewerDivRef # 0 /\ w0.viewerDivRef \in w0.children
                   THEN [w0 EXCEPT !.children = @ \ {w0.viewerDivRef}]
                   ELSE w0
           divId == Len(w1.divs) + 1
           w2 == [w1 EXCEPT !.divs = Append(@, [effect |-> e]),
                            !.children = @ \cup {divId},
                            !.viewerDivRef = divId]
           vId == Len(w2.viewers) + 1
           calls == LegacyCalls(w.effects[e])
       IN IF w.fault.nth = 1 /\ w.fault.op = "createViewer"
            THEN [w2 EXCEPT !.effects[e].threw = TRUE]
          ELSE LET w3 == [w2 EXCEPT !.viewers =
                            Append(@, [effect |-> e, div |-> divId,
                                       cleared |-> FALSE])]
               IN IF FirstThrow(w.fault, calls, 1) <= Len(calls)
                    THEN [w3 EXCEPT !.effects[e].threw = TRUE]
                    ELSE [w3 EXCEPT !.viewerRef = vId, !.loading = FALSE,
                                    !.effects[e].initDone = TRUE]

\* function tryInit() { if (cancelled) return; initViewer(); }
TryInit(w, e) ==
  LET w0 == [w EXCEPT !.effects[e].tryInitCalls = @ + 1,
                      !.effects[e].lateCalls =
                         IF w.effects[e].superseded THEN @ + 1 ELSE @]
  IN IF w0.effects[e].cancelled THEN w0 ELSE InitViewer(w0, e)

\* The cleanup of the unmount-only effect.  By then React has detached
\* wrapperRef.
UnmountCleanup(w) ==
  LET w0 == ClearViewerRef(w)
  IN IF w0.viewerDivRef # 0 /\ w0.mounted /\ w0.viewerDivRef \in w0.children
       THEN [w0 EXCEPT !.children = @ \ {w0.viewerDivRef}, !.viewerDivRef = 0]
       ELSE w0

\* React, when an effect body throws: the tree is unmounted and the
\* cleanups of the effects that were set up are run.
LegacyCrash(w) ==
  UnmountCleanup([w EXCEPT !.mounted = FALSE, !.crashed = TRUE, !.children = {}])

\* The body of the script-load effect.
ScriptEffect(w) ==
  LET e == Len(w.effects) + 1
      w0 == [w EXCEPT !.effects = Append(@, NewEffect(w.props))]
  IN IF w0.window3Dmol
       THEN LET w1 == [TryInit(w0, e) EXCEPT !.effects[e].branch = "ready"]
            IN IF w1.effects[e].threw THEN LegacyCrash(w1) ELSE w1
     ELSE IF w0.appends > 0
       THEN [w0 EXCEPT !.listeners = Append(@, e),
                       !.effects[e].branch = "existing",
                       !.effects[e].hasCleanup = TRUE]
     ELSE [w0 EXCEPT !.appends = @ + 1,
                     !.script = "loading",
                     !.listeners = Append(@, e),
                     !.effects[e].branch = "created",
                     !.effects[e].hasCleanup = TRUE]

\* The run of the script-load effect that is superseded by the next
\* render or by unmount: the last one, 0 when the instance has none.
LastEffect(w) ==
  IF w.effects # <<>> /\ ~w.effects[Len(w.effects)].superseded
    THEN Len(w.effects) ELSE 0

\* The cleanup the script-load effect returned, if it returned one.
ScriptEffectCleanup(w) ==
  LET e == LastEffect(w)
  IN IF e = 0 THEN w
     ELSE LET w0 == [w EXCEPT !.effects[e].superseded = TRUE]
          IN IF ~w.effects[e].hasCleanup THEN w0
             ELSE [w0 EXCEPT !.effects[e].cancelled = TRUE,
                             !.listeners = RemoveListener(@, e)]

\* The page renders the component: new refs, useState(true), the
\* script-load effect, then the unmount-only effect.
LegacyMount(p) ==
  /\ ~lgMounted /\ ~lgCrashed
  /\ Len(lgEffects) < MaxCycles
  /\ LegacyBecome(ScriptEffect([LegacyWorld EXCEPT
        !.mounted = TRUE, !.props = p, !.loading = TRUE, !.children = {},
        !.viewerRef = 0, !.viewerDivRef = 0]))
  /\ UNCHANGED nonLegacyVars

\* A render with another pdbData or mutationPosition: initViewer is a new
\* function, so the script-load effect is cleaned up and run again.
LegacyChangeInputs(p) ==
  /\ lgMounted
  /\ Len(lgEffects) < MaxCycles
  /\ p # lgProps
  /\ LegacyBecome(ScriptEffect(ScriptEffectCleanup([LegacyWorld EXCEPT !.props = p])))
  /\ UNCHANGED nonLegacyVars

\* The page stops rendering the component: the wrapper leaves the
\* document, then the two cleanups run.
LegacyUnmount ==
  /\ lgMounted
  /\ LegacyBecome(UnmountCleanup(ScriptEffectCleanup(
        [LegacyWorld EXCEPT !.mounted = FALSE, !.children = {}])))
  /\ UNCHANGED nonLegacyVars

\* The load event: every listener registered, in order.  An exception in
\* a listener is reported and the dispatch goes on.
RECURSIVE LegacyDispatch(_, _)
LegacyDispatch(w, ls) ==
  IF ls = <<>> THEN w
  ELSE LegacyDispatch(IF \E i \in 1..Len(w.listeners) : w.listeners[i] = Head(ls)
                        THEN TryInit(w, Head(ls)) ELSE w,
                      Tail(ls))

LegacyFaults ==
  {NoFault} \cup [op : {"createViewer", "addModel", "setStyle", "zoomTo", "render"},
                  nth : {1}]

LegacyScriptLoad(defines, fault) ==
  /\ lgScript = "loading"
  /\ defines \/ fault = NoFault
  /\ LegacyBecome(LegacyDispatch([LegacyWorld EXCEPT !.script = "loaded",
                                                     !.window3Dmol = defines,
                                                     !.fault = fault],
                                 lgListeners))
  /\ UNCHANGED nonLegacyVars

LegacyScriptError ==
  /\ lgScript = "loading"
  /\ LegacyBecome([LegacyWorld EXCEPT !.script = "failed"])
  /\ UNCHANGED nonLegacyVars

LegacyInit ==
  /\ ViewerInit /\ RmsdIdle /\ RampIdle /\ ColorIdle /\ ParseIdle /\ FoldIdle
  /\ PageIdle /\ ExplainIdle /\ DispIdle /\ LegacyIdle

LegacyNext ==
  \/ \E p \in LegacyPropsSet : LegacyMount(p)
  \/ \E p \in LegacyPropsSet : LegacyChangeInputs(p)
  \/ LegacyUnmount
  \/ \E d \in BOOLEAN, f \in LegacyFaults : LegacyScriptLoad(d, f)
  \/ LegacyScriptError

LegacySpec == LegacyInit /\ [][LegacyNext]_vars

(* ======================= properties of the viewer ===================== *)

ViewersOf(c) == {v \in 1..Len(viewers) : viewers[v].cyc = c}
DivsOf(c) == {d \in 1..Len(divs) : divs[d].cyc = c}
AttachedDivs == UNION {wrapperChildren[r] : r \in Roles}
LiveViewers == {v \in 1..Len(viewers) : ~viewers[v].cleared}
Listening(c) == \E i \in 1..Len(loadListeners) : loadListeners[i] = c
OpIndexes(log, op) == {i \in 1..Len(log) : log[i].op = op}

\* C1: a cycle torn down while its engine load was still pending (its
\* callback had not run) has its cancelled flags set and its load listener
\* removed, its callback never runs, and no viewer and no div is ever
\* created for it, whatever loads afterwards.
SupersededNeverInitialises ==
  \A c \in 1..Len(cycles) :
    cycles[c].pendingAtCleanup =>
      /\ cycles[c].cancelled
      /\ cycles[c].loadCancelled
      /\ ~Listening(c)
      /\ cycles[c].onReadyCalls = 0
      /\ ViewersOf(c) = {}
      /\ DivsOf(c) = {}

\* C1 witness: the inputs changed while the load was pending, the script
\* then loaded, and the newest cycle alone built its viewer.
SupersededThenLoaded ==
  /\ Len(cycles) = 2
  /\ cycles[1].pendingAtCleanup
  /\ ~cycles[2].readyAtCall
  /\ scriptState = "loaded"
  /\ cycles[2].initDone
  /\ ViewersOf(2) # {}

\* C2: every viewer created and not yet cleared, and every div attached to
\* a wrapper, belongs to the most recently started cycle: at most one viewer
\* in single mode, at most two in dual mode.
LiveBelongToNewestCycle ==
  /\ \A v \in LiveViewers : viewers[v].cyc = Len(cycles)
  /\ \A d \in AttachedDivs : divs[d].cyc = Len(cycles)
  /\ cycles # <<>> =>
       Cardinality(LiveViewers) <= IF cycles[Len(cycles)].isDual THEN 2 ELSE 1

\* What remains of C2 while no engine call has thrown.
LiveBelongToNewestUnlessThrown ==
  (\A c \in 1..Len(cycles) : ~cycles[c].threw) => LiveBelongToNewestCycle

\* C3: once a cycle's teardown has run, every viewer createViewer returned
\* during the cycle is cleared and every div the cycle appended is out of
\* the wrappers.
TeardownReleasesEverything ==
  \A c \in 1..Len(cycles) :
    cycles[c].cancelled =>
      /\ \A v \in ViewersOf(c) : viewers[v].cleared
      /\ DivsOf(c) \cap AttachedDivs = {}

\* C4: every viewer is created with the engine available; in its calls,
\* addModel precedes every setStyle, and addModel and both setStyle calls
\* precede the first zoomTo.
EngineThenModelThenStyleThenZoom ==
  \A v \in 1..Len(viewers) :
    LET log == viewers[v].log
    IN /\ viewers[v].engine
       /\ \A i \in OpIndexes(log, "setStyle") :
            \E j \in OpIndexes(log, "addModel") : j < i
       /\ \A i \in OpIndexes(log, "zoomTo") :
            /\ \E j \in OpIndexes(log, "addModel") : j < i
            /\ \A j \in OpIndexes(log, "setStyle") : j < i
            /\ Cardinality(OpIndexes(log, "setStyle")) = 2

\* C4 witness: a dual cycle whose two viewers went through every call.
BothViewersFramed ==
  \E c \in 1..Len(cycles) :
    /\ cycles[c].initDone
    /\ \E v1, v2 \in ViewersOf(c) :
         /\ viewers[v1].role = "wild" /\ viewers[v2].role = "mutant"
         /\ OpIndexes(viewers[v1].log, "zoomTo") # {}
         /\ OpIndexes(viewers[v2].log, "zoomTo") # {}

\* C5: the script element is appended at most once; a load3Dmol call made
\* with the engine ready takes the ready branch, one made with the script
\* in the document takes the existing-script branch.
ScriptAppendedAtMostOnce ==
  /\ scriptAppends <= 1
  /\ Cardinality({c \in 1..Len(cycles) : cycles[c].loadBranch = "created"}) <= 1
  /\ \A c \in 1..Len(cycles) :
       /\ cycles[c].readyAtCall => cycles[c].loadBranch = "ready"
       /\ cycles[c].loadBranch = "created" =>
            \A b \in 1..Len(cycles) : b < c => cycles[b].loadBranch = "none"

\* C5 witness: a second cycle found the script of the first still loading.
SecondCycleReusesScript ==
  /\ Len(cycles) = 2
  /\ cycles[1].loadBranch = "created"
  /\ cycles[2].loadBranch = "existing"
  /\ scriptAppends = 1

\* C6: load3Dmol has invoked onReady once by the time it returns when the
\* engine is ready; otherwise a registered onReady is invoked exactly once
\* when the load event fires; onReady is invoked at most once, and never
\* after the returned cleanup was called.
OnReadyContract ==
  /\ [](\A c \in 1..Len(cycles) :
          /\ cycles[c].readyAtCall => cycles[c].onReadyCalls = 1
          /\ cycles[c].onReadyCalls <= 1
          /\ cycles[c].lateCalls = 0
          /\ (~cycles[c].readyAtCall /\ cycles[c].onReadyCalls = 1)
               => scriptState = "loaded")
  /\ [][\A c \in 1..Len(cycles) :
          /\ cycles[c].loadCancelled
               => cycles'[c].onReadyCalls = cycles[c].onReadyCalls
          /\ (scriptState = "loading" /\ scriptState' = "loaded"
              /\ Listening(c) /\ ~cycles[c].loadCancelled)
               => cycles'[c].onReadyCalls = 1]_vars

\* C6 witness: one cycle was served by the load event, the next one
\* synchronously, and the first has been cleaned up since.
QueuedThenImmediate ==
  /\ Len(cycles) = 2
  /\ ~cycles[1].readyAtCall /\ cycles[1].onReadyCalls = 1
  /\ cycles[1].loadCancelled
  /\ cycles[2].readyAtCall /\ cycles[2].onReadyCalls = 1

\* C7: as long as the script has not loaded (still loading, or failed), the
\* loading flag is true, no viewer and no div exists, nothing was thrown
\* into the component, no callback has run, and a torn-down cycle is fully
\* cancelled with its listener removed.
NoLoadStaysLoading ==
  scriptState \in {"loading", "failed"} =>
    /\ ~window3Dmol
    /\ loading
    /\ viewers = <<>>
    /\ divs = <<>>
    /\ ~crashed
    /\ \A c \in 1..Len(cycles) :
         /\ ~cycles[c].threw
         /\ cycles[c].onReadyCalls = 0
         /\ cycles[c].hasCleanup
         /\ cycles[c].cancelled =>
              (cycles[c].loadCancelled /\ ~Listening(c))

\* C7 witness: the load failed, one cycle was torn down and another waits.
FailedLoadSecondCycle ==
  /\ scriptState = "failed"
  /\ Len(cycles) = 2
  /\ cycles[1].cancelled
  /\ mounted
  /\ Listening(2)

\* The viewers of cycle c in creation order.
ViewerSeqOf(c) == SelectSeq([v \in 1..Len(viewers) |-> viewers[v]],
                            LAMBDA r : r.cyc = c)

\* C8: a cycle that completed initialisation made one viewer, loaded with
\* the wild-type text, when the mutant text is absent, and the wild-type
\* viewer then the mutant viewer, each loaded with its own text, when it is
\* present; no cycle ever holds a single-mode and a dual-mode viewer.
ViewerCountMatchesMode ==
  \A c \in 1..Len(cycles) :
    LET vs == ViewerSeqOf(c)
        cy == cycles[c]
    IN /\ cy.initDone =>
            IF ~IsDualOf(cy.mutantPdbData)
              THEN /\ Len(vs) = 1
                   /\ vs[1].role = "single"
                   /\ vs[1].log[1].op = "addModel"
                   /\ vs[1].log[1].text = cy.pdbData
                   /\ OpIndexes(vs[1].log, "addModel") = {1}
              ELSE /\ Len(vs) = 2
                   /\ vs[1].role = "wild"
                   /\ vs[1].log[1].op = "addModel"
                   /\ vs[1].log[1].text = cy.pdbData
                   /\ OpIndexes(vs[1].log, "addModel") = {1}
                   /\ vs[2].role = "mutant"
                   /\ vs[2].log[1].op = "addModel"
                   /\ vs[2].log[1].text = cy.mutantPdbData
                   /\ OpIndexes(vs[2].log, "addModel") = {1}
       /\ ~(\E i, j \in 1..Len(vs) :
              vs[i].role = "single" /\ vs[j].role # "single")

\* C8 witness: a completed single cycle (empty-string mutant text) followed
\* by a completed dual cycle.
SingleThenDualCompleted ==
  /\ Len(cycles) = 2
  /\ cycles[1].initDone /\ cycles[1].mutantPdbData = ""
  /\ cycles[2].initDone /\ cycles[2].isDual
  /\ Len(ViewerSeqOf(2)) = 2

\* A viewer whose construction ran to the end: the cycle recorded it (and
\* may have cleared it since).
Recorded(v) ==
  \/ viewers[v].cleared
  \/ cycles[viewers[v].cyc].viewer[viewers[v].role] = v

\* C9: every zoomTo is restricted to the cycle's mutation residue, never
\* the whole structure, comes after addModel and both setStyle calls, and
\* the call after it is zoom(0.6); zoom is called nowhere else; every
\* viewer whose construction ran to the end was framed this way.
CameraFramesMutationResidue ==
  \A v \in 1..Len(viewers) :
    LET log == viewers[v].log
        cy == cycles[viewers[v].cyc]
    IN /\ \A i \in OpIndexes(log, "zoomTo") :
            /\ log[i].resi = cy.mutationPosition
            /\ log[i].resi # AllAtoms
            /\ \E j \in OpIndexes(log, "addModel") : j < i
            /\ Cardinality({j \in OpIndexes(log, "setStyle") : j < i}) = 2
            /\ i < Len(log) =>
                 (log[i + 1].op = "zoom" /\ log[i + 1].factor = ZoomFactorTenths)
       /\ \A i \in OpIndexes(log, "zoom") :
            /\ i > 1 /\ log[i - 1].op = "zoomTo"
            /\ log[i].factor = ZoomFactorTenths
       /\ Recorded(v) =>
            /\ Cardinality(OpIndexes(log, "zoomTo")) = 1
            /\ Cardinality(OpIndexes(log, "zoom")) = 1

\* C9 witness: a dual cycle on residue 2 whose two viewers were framed.
DualFramedOnResidueTwo ==
  \E c \in 1..Len(cycles) :
    /\ cycles[c].initDone /\ cycles[c].isDual
    /\ cycles[c].mutationPosition = 2
    /\ \A v \in ViewersOf(c) :
         \E i \in OpIndexes(viewers[v].log, "zoomTo") : viewers[v].log[i].resi = 2

(* ================== properties of computePerResidueRmsd =============== *)

SquaredDistance(a, b) ==
  (a.x - b.x) * (a.x - b.x) + (a.y - b.y) * (a.y - b.y) + (a.z - b.z) * (a.z - b.z)

\* C10: the result has exactly the keys in both maps, one entry each, and
\* each value is the Euclidean distance of the two triples (here in whole
\* units, rounded down): not negative, and zero exactly when the triples
\* are identical.
RmsdOnSharedKeys ==
  rmsdPc = "done" =>
    /\ MapKeys(rmsdMap) = MapKeys(wildCa) \cap MapKeys(mutantCa)
    /\ \A i, j \in 1..Len(rmsdMap) : rmsdMap[i].k = rmsdMap[j].k => i = j
    /\ \A i \in 1..Len(rmsdMap) :
         LET a == MapGet(wildCa, rmsdMap[i].k)
             b == MapGet(mutantCa, rmsdMap[i].k)
             d == rmsdMap[i].v
         IN /\ d >= 0
            /\ d * d <= SquaredDistance(a, b)
            /\ SquaredDistance(a, b) < (d + 1) * (d + 1)
            /\ d = 0 <=> a = b

\* C10 witness: wild {10:(0,0,0), 11:(1,0,0)}, mutant {10:(0,0,3),
\* 12:(5,5,5)} gives {10: 3}.
RmsdScenarioB ==
  /\ rmsdPc = "done"
  /\ wildCa = << [k |-> 10, v |-> [x |-> 0, y |-> 0, z |-> 0]],
                 [k |-> 11, v |-> [x |-> 1, y |-> 0, z |-> 0]] >>
  /\ mutantCa = << [k |-> 10, v |-> [x |-> 0, y |-> 0, z |-> 3]],
                   [k |-> 12, v |-> [x |-> 5, y |-> 5, z |-> 5]] >>
  /\ rmsdMap = << [k |-> 10, v |-> 3] >>

\* What a map holds, whatever the order its keys were inserted in.
MapContent(m) == {<<m[i].k, m[i].v>> : i \in 1..Len(m)}

\* The same entries inserted in another order.
Reordered(m, f) == [i \in 1..Len(m) |-> m[f[i]]]
Reorderings(m) == {Reordered(m, f) : f \in Permutations(1..Len(m))}

\* C11: computePerResidueRmsd(A, B) and computePerResidueRmsd(B, A) have the
\* same keys with identical values, and inserting the entries of either
\* input in any other order gives a result with the same content.
RmsdSymmetricAndOrderFree ==
  rmsdPc = "done" =>
    /\ MapKeys(rmsdMap) = MapKeys(rmsdSwap)
    /\ \A k \in MapKeys(rmsdMap) : MapGet(rmsdMap, k) = MapGet(rmsdSwap, k)
    /\ \A w \in Reorderings(wildCa) : \A m \in Reorderings(mutantCa) :
         MapContent(ComputePerResidueRmsd(w, m)) = MapContent(rmsdMap)

\* C11 witness: two shared residues inserted in opposite orders, at
\* different distances; the two results list them in opposite orders.
RmsdSwappedOrders ==
  /\ rmsdPc = "done"
  /\ wildCa = << [k |-> 10, v |-> [x |-> 0, y |-> 0, z |-> 0]],
                 [k |-> 11, v |-> [x |-> 1, y |-> 0, z |-> 0]] >>
  /\ mutantCa = << [k |-> 11, v |-> [x |-> 0, y |-> 0, z |-> 3]],
                   [k |-> 10, v |-> [x |-> 5, y |-> 5, z |-> 5]] >>
  /\ rmsdMap = << [k |-> 10, v |-> 8], [k |-> 11, v |-> 3] >>
  /\ rmsdSwap = << [k |-> 11, v |-> 3], [k |-> 10, v |-> 8] >>

(* ================= properties of the displacement ramp ================ *)

White == Rgb(255, 255, 255)
Yellow == Rgb(255, 255, 0)
Red == Rgb(255, 0, 0)
Channels == 0..255

RampClampedAbove ==
  rampPc = "done" =>
    /\ rampIn >= 5 * RampScale => rampOut = Red
    /\ rampIn >= 0 =>
         rampOut.r \in Channels /\ rampOut.g \in Channels /\ rampOut.b \in Channels

\* A value below zero leaves the ramp with blue above 255.
RampBelowZeroOverflows ==
  /\ rampPc = "done"
  /\ rampIn = 0 - 1
  /\ rampOut.b > 255

\* Twice the distance of a channel c from the exact value num / den.
TwiceOff(c, num, den) ==
  IF 2 * (c * den - num) >= 0 THEN 2 * (c * den - num) ELSE 2 * (num - c * den)

\* C13: value 0 is white, value 2 exactly yellow, value 5 red and value 7
\* the same red; on [0,2] only blue falls and on [2,5] only green falls,
\* each within half a unit of the straight line between the stops; the
\* color never moves back as the value grows, and one step of the value
\* moves a channel by no more than the slope of its line, also across the
\* stop at 2.
RampStopsAndLinear ==
  rampPc = "done" =>
    LET n == rampIn
        S == RampScale
        next == DisplacementColor(n + 1)
    IN /\ n = 0 => rampOut = White
       /\ n = 2 * S => rampOut = Yellow
       /\ n = 5 * S => rampOut = Red
       /\ n = 7 * S => rampOut = Red /\ rampOut = DisplacementColor(5 * S)
       /\ (0 <= n /\ n <= 2 * S) =>
            /\ rampOut.r = 255 /\ rampOut.g = 255
            /\ TwiceOff(rampOut.b, 255 * (2 * S - n), 2 * S) <= 2 * S
       /\ (2 * S <= n /\ n <= 5 * S) =>
            /\ rampOut.r = 255 /\ rampOut.b = 0
            /\ TwiceOff(rampOut.g, 255 * (5 * S - n), 3 * S) <= 3 * S
       /\ \A m \in RampInputs :
            m >= n => /\ DisplacementColor(m).r = rampOut.r
                      /\ DisplacementColor(m).g <= rampOut.g
                      /\ DisplacementColor(m).b <= rampOut.b
       /\ n >= 0 => /\ rampOut.b - next.b <= 255 \div (2 * S) + 1
                     /\ rampOut.g - next.g <= 255 \div (3 * S) + 1

\* C13 witness: the ramp applied to the value 2, giving yellow.
RampAtStopTwo ==
  /\ rampPc = "done"
  /\ rampIn = 2 * RampScale
  /\ rampOut = Yellow

(* ================= properties of the color callbacks ================== *)

\* C14: for an atom whose residue has no entry in the displacement map the
\* callback returns the color of value 0, white; and for every atom the
\* whole-structure callback and the highlighted-residue callback return
\* the same color.
MissingResidueIsWhite ==
  cfPc = "done" =>
    /\ ~MapHas(cfMap, cfResi) => cfAll = White /\ cfSite = White
    /\ cfAll = cfSite
    /\ MapHas(cfMap, cfResi) => cfAll = DisplacementColor(MapGet(cfMap, cfResi))

\* C14 witness: the map holds residues 10 and 11, both displaced, and the
\* callbacks are asked about residue 13.
UnlistedResidueColored ==
  /\ cfPc = "done"
  /\ MapKeys(cfMap) = {10, 11}
  /\ \A i \in 1..Len(cfMap) : cfMap[i].v >= YellowAt * RampScale
  /\ cfResi = 13
  /\ cfAll = White
  /\ cfSite = White

(* ==================== properties of parseCaAtoms ====================== *)

IsAtomRecord(l) == l.atom

\* C15: only lines that begin with "ATOM  " count.  Every key of the
\* result is the residue index of such a line, the result is the same as
\* for the text without the other lines, and a text with no such line
\* (the empty text included) gives the empty map.
OnlyAtomLinesCount ==
  parsePc = "done" =>
    /\ \A k \in MapKeys(caAtoms) :
         \E i \in 1..Len(pdbLines) : pdbLines[i].atom /\ pdbLines[i].resi = k
    /\ caAtoms = ParseCaAtoms(Join(SelectSeq(pdbLines, IsAtomRecord)))
    /\ (\A i \in 1..Len(pdbLines) : ~pdbLines[i].atom) => caAtoms = <<>>

\* C15 witness: a HETATM record of a CA atom with sound fields and a
\* header, parsed to the empty map.
OnlyOtherLinesParsed ==
  /\ parsePc = "done"
  /\ pdbLines = <<HetCa, Header>>
  /\ caAtoms = <<>>

\* An ATOM record of a CA atom whose residue index and coordinates are
\* all numbers.
IsSoundCa(l) == l.atom /\ l.name = "CA" /\ l.numeric
IsCaRecord(l) == l.atom /\ l.name = "CA"
SoundCaLines(r) == {i \in 1..Len(pdbLines) : IsSoundCa(pdbLines[i]) /\ pdbLines[i].resi = r}
Largest(S) == CHOOSE i \in S : \A j \in S : j <= i

\* C16: the result holds residue r exactly when the text has an ATOM
\* record of a CA atom of residue r with numeric fields, once per residue,
\* with the coordinates of the last such record; records of other atoms
\* change nothing: without them the result is the same.
CaRecordsOnlyOncePerResidue ==
  parsePc = "done" =>
    /\ \A r \in 0..13 : MapHas(caAtoms, r) <=> SoundCaLines(r) # {}
    /\ MapKeys(caAtoms) \subseteq 0..13
    /\ \A i, j \in 1..Len(caAtoms) : caAtoms[i].k = caAtoms[j].k => i = j
    /\ \A r \in MapKeys(caAtoms) :
         MapGet(caAtoms, r) = pdbLines[Largest(SoundCaLines(r))].v
    /\ caAtoms = ParseCaAtoms(Join(SelectSeq(pdbLines, IsCaRecord)))

\* C16 witness: the N and the CA record of residue 10 (Scenario A's
\* coordinates); only the CA record is kept.
BackboneOfResidueTen ==
  /\ parsePc = "done"
  /\ pdbLines = <<CaTen, NTen>>
  /\ caAtoms = << [k |-> 10, v |-> [x |-> 1000, y |-> 2000, z |-> 3000]] >>

\* The lines but for the one at place i.
Without(lines, i) == SubSeq(lines, 1, i - 1) \o SubSeq(lines, i + 1, Len(lines))

\* C17: a CA record whose residue index or one of whose coordinates is not
\* a number produces no entry and disturbs nothing: the result is the
\* result for the text without that line, so a text of such records alone
\* gives the empty map.
UnparsableCaSkipped ==
  parsePc = "done" =>
    /\ \A i \in 1..Len(pdbLines) :
         (IsCaRecord(pdbLines[i]) /\ ~pdbLines[i].numeric) =>
           caAtoms = ParseCaAtoms(Join(Without(pdbLines, i)))
    /\ (\A i \in 1..Len(pdbLines) : IsCaRecord(pdbLines[i]) /\ ~pdbLines[i].numeric)
         => caAtoms = <<>>

\* C17 witness: a CA record of residue 12 with an overflowed x field,
\* followed by a sound CA record of residue 11.
BadXThenSoundRecord ==
  /\ parsePc = "done"
  /\ pdbLines = <<CaBadX, CaEleven>>
  /\ caAtoms = << [k |-> 11, v |-> [x |-> 500, y |-> 0, z |-> 0]] >>

(* =================== properties of the ESMFold route ================== *)

\* C18: every sequence POSTed to the folding service has at most 400
\* residues, and a request whose mutant sequence would be longer ends with
\* status 400 and nothing POSTed.
PostedWithinLimit ==
  /\ \A i \in 1..Len(foldSent) : Len(foldSent[i]) <= SeqLimit
  /\ (/\ foldPc = "done"
      /\ foldReq.body = "object"
      /\ Truthy(foldReq.sequence) /\ Truthy(foldReq.mutant)
      /\ Len(foldReq.sequence) - 1 + Len(foldReq.mutant) > SeqLimit)
     => foldResp.status = 400 /\ foldSent = <<>>

\* Supporting C18: what the code does guarantee.  The sequence of the
\* request is what is held to the limit; what is POSTed is one residue
\* shorter than that plus the length of `mutant`.
InputWithinLimit ==
  \A i \in 1..Len(foldSent) :
    /\ Len(foldReq.sequence) <= SeqLimit
    /\ Len(foldSent[i]) = Len(foldReq.sequence) - 1 + Len(foldReq.mutant)

\* A sequence of 400 residues with the mutant "HH": 401 residues POSTed.
PostedOverLimit ==
  /\ Len(foldSent) = 1
  /\ Len(foldReq.sequence) = SeqLimit
  /\ Len(foldSent[1]) = SeqLimit + 1

\* The residue at the 1-based place q is `original`, whatever the case.
HoldsOriginal(q) ==
  /\ q \in 1..Len(foldReq.sequence)
  /\ ToUpperCase(CharAt(foldReq.sequence, q)) = ToUpperCase(foldReq.original)

\* C19, the resolved position: whenever a folding request is made the
\* position is an integer, the resolved position p lies in the sequence,
\* within 5 of it, and holds `original` whatever the case; p is the
\* position itself when that holds `original`, the lowest place of the
\* window that does otherwise.
ResolvedPositionRight ==
  \A i \in 1..Len(foldSent) :
    LET n == foldReq.position.n
        p == foldResolved
    IN /\ foldReq.position.t = "number" /\ ~foldReq.position.half
       /\ p \in 1..Len(foldReq.sequence)
       /\ p - n \in (0 - 5)..5
       /\ HoldsOriginal(p)
       /\ HoldsOriginal(n) => p = n
       /\ ~HoldsOriginal(n) => \A q \in (n - 5)..(n + 5) : HoldsOriginal(q) => p <= q

\* C19: whenever a folding request is made the resolved position is right
\* and the sequence sent is the sequence of the request, residue for
\* residue, but for the place p, which holds the uppercased mutant.
ResolvedAndSubstituted ==
  /\ ResolvedPositionRight
  /\ \A i \in 1..Len(foldSent) :
       /\ Len(foldSent[i]) = Len(foldReq.sequence)
       /\ \A j \in 1..Len(foldReq.sequence) :
            CharAt(foldSent[i], j) =
              IF j = foldResolved THEN ToUpperCase(foldReq.mutant)
                                  ELSE CharAt(foldReq.sequence, j)

\* Supporting C19: what is sent is the sequence with the residue at p cut
\* out and the uppercased `mutant`, however long, put in its place; with a
\* mutant of one residue that is the sequence changed at p alone.
MutantSplicedAtResolved ==
  \A i \in 1..Len(foldSent) :
    LET seq == foldReq.sequence
        p == foldResolved
        M == ToUpperCase(foldReq.mutant)
    IN /\ Len(foldSent[i]) = Len(seq) - 1 + Len(M)
       /\ SubSeq(foldSent[i], 1, p - 1) = SubSeq(seq, 1, p - 1)
       /\ SubSeq(foldSent[i], p, p + Len(M) - 1) = M
       /\ SubSeq(foldSent[i], p + Len(M), Len(foldSent[i])) = SubSeq(seq, p + 1, Len(seq))
       /\ Len(foldReq.mutant) = 1 =>
            \A j \in 1..Len(seq) :
              CharAt(foldSent[i], j) = IF j = p THEN M ELSE CharAt(seq, j)

\* Position 7 of "MRAAAAKAARAA" with original "R" resolves to 2 (offset
\* -5), not to the nearer 10, and "h" is put there in upper case.
ResolvedFiveDown ==
  /\ foldSent = << "MHAAAAKAARAA" >>
  /\ foldReq.position = Number(7, FALSE)
  /\ foldReq.original = "r"
  /\ foldReq.mutant = "h"
  /\ foldResolved = 2

\* What is wrong with a request whose body is an object.  Positions are
\* compared doubled, so that n + 1/2 is a whole number.
TwicePosition(req) == 2 * req.position.n + (IF req.position.half THEN 1 ELSE 0)
MissingField(req) ==
  \/ req.sequence \in {UndefV, ""}
  \/ req.position.t # "number"
  \/ req.original \in {UndefV, ""}
  \/ req.mutant \in {UndefV, ""}
OutOfRange(req) ==
  TwicePosition(req) < 2 \/ TwicePosition(req) > 2 * Len(req.sequence)
NoneWithinFive(req) ==
  \A q \in 1..Len(req.sequence) :
    (2 * q - TwicePosition(req) \in (0 - 10)..10) =>
      ToUpperCase(CharAt(req.sequence, q)) # ToUpperCase(req.original)
ValidationFails(req) ==
  \/ MissingField(req)
  \/ ~MissingField(req)
       /\ (OutOfRange(req) \/ NoneWithinFive(req) \/ Len(req.sequence) > SeqLimit)

\* C20: a request that fails a validation (a field missing, the position
\* outside the sequence, `original` nowhere within 5 places, more than 400
\* residues) ends with status 400 and nothing POSTed; a folding request
\* that times out, fails on the network or is answered with a non-OK
\* status ends with status 500; the handler always ends with a JSON
\* response and no exception leaves it.
ErrorsAnswered ==
  /\ ~foldThrown
  /\ foldPc = "done" =>
       /\ foldResp.status \in {200, 400, 500}
       /\ (foldReq.body = "object" /\ ValidationFails(foldReq)) =>
            foldResp.status = 400 /\ foldSent = <<>>
       /\ foldService \in {"timeout", "network", "nonOk"} => foldResp.status = 500

\* Supporting C20: the same with the validations read for a position that
\* is an integer; a position that is not ends in the catch block with 500.
ErrorsAnsweredOnIntegerPositions ==
  /\ ~foldThrown
  /\ foldPc = "done" =>
       /\ foldResp.status \in {200, 400, 500}
       /\ (foldReq.body = "object" /\ ValidationFails(foldReq)
            /\ (MissingField(foldReq) \/ ~foldReq.position.half)) =>
            foldResp.status = 400 /\ foldSent = <<>>
       /\ (foldReq.body = "object" /\ ~MissingField(foldReq)
            /\ foldReq.position.half /\ ~OutOfRange(foldReq)) =>
            foldResp = [status |-> 500, body |-> "caught"] /\ foldSent = <<>>
       /\ foldService \in {"timeout", "network", "nonOk"} => foldResp.status = 500
       /\ (foldService = "ok" /\ foldResp.status = 200) => ~ValidationFails(foldReq)

\* A sequence of 401 residues with the position 1.5: status 500.
TooLongAnsweredWithFiveHundred ==
  /\ foldPc = "done"
  /\ Len(foldReq.sequence) = SeqLimit + 1
  /\ foldReq.position = Number(1, TRUE)
  /\ foldResp.status = 500
  /\ foldSent = <<>>

(* ======================== properties of the page ====================== *)

RequestsOf(k, kind) ==
  {i \in 1..Len(pgRequests) : pgRequests[i].run = k /\ pgRequests[i].kind = kind}

\* C21: a structure request comes after the lookup request of the same
\* submit, whose answer was ok, and carries the accession of that answer;
\* a submit of an empty or unparsable input issues no request; after a
\* lookup that failed there is no structure request, structure is null and
\* an error message is set.
StructureOnlyAfterLookup ==
  \A k \in 1..Len(pgRuns) :
    /\ \A i \in RequestsOf(k, "structure") :
         /\ \E j \in RequestsOf(k, "lookup") : j < i
         /\ pgRuns[k].lookup = "ok"
         /\ pgRequests[i].arg = pgRuns[k].accession
         /\ k = Len(pgRuns) => pgProtein.uniprotId = pgRequests[i].arg
    /\ pgRuns[k].end \in {"empty", "format"} =>
         \A i \in 1..Len(pgRequests) : pgRequests[i].run # k
    /\ pgRuns[k].lookup \in {"notOk", "rejected", "unreadable"} =>
         /\ RequestsOf(k, "structure") = {}
         /\ k = Len(pgRuns) => ~pgStructure.set /\ pgError # ""

\* C21 witness: the first submit's lookup is answered not ok; the second
\* submit's lookup answers P38398 and the structure request asks for it.
FailedThenFetched ==
  /\ Len(pgRuns) = 2
  /\ pgRuns[1].lookup = "notOk"
  /\ pgRuns[2].lookup = "ok"
  /\ pgRequests = << PageFetch(1, "lookup", "TP53"), PageFetch(2, "lookup", "BRCA1"),
                     PageFetch(2, "structure", "P38398") >>

(* ==================== properties of the explain route ================= *)

\* The required fields a request lacks, read off the request itself: a
\* text field that is absent or empty, plddt absent or null.  A body that
\* is no object has none of the seven.
Lacking(req) ==
  IF req.body # "object" THEN {FieldOrder[i] : i \in 1..Len(FieldOrder)}
  ELSE {f \in TextNames : req.text[f] \in {UndefV, ""}}
       \cup (IF req.plddt.t = "number" THEN {} ELSE {"plddt"})

\* The names of Lacking(req) in the order of the checks, joined by ", ".
RECURSIVE Listed(_, _)
Listed(req, i) ==
  IF i > Len(FieldOrder) THEN ""
  ELSE LET rest == Listed(req, i + 1)
       IN IF FieldOrder[i] \notin Lacking(req) THEN rest
          ELSE IF rest = "" THEN FieldOrder[i]
          ELSE FieldOrder[i] \o ", " \o rest

\* C22: a request lacking any of the seven fields ends with status 400,
\* a message naming exactly the fields it lacks, and no request to the
\* LLM (a plddt of 0 is not lacking); with all fields and no usable key it
\* ends with 500 and no request to the LLM; when the LLM request fails, is
\* answered not ok or without explanation text, it ends with 500.
ExplainErrorsAnswered ==
  exPc = "done" =>
    /\ (exReq.body # "invalid" /\ Lacking(exReq) # {}) =>
         /\ exResp.status = 400
         /\ exResp.error = "Missing required fields: " \o Listed(exReq, 1)
         /\ exCalls = 0
    /\ (exReq.body = "object" /\ Lacking(exReq) = {}
        /\ exKey \in {UndefV, "", PlaceholderKey}) =>
         exResp.status = 500 /\ exCalls = 0
    /\ exService \in {"rejected", "notOk", "noText"} => exResp.status = 500

\* Supporting C22: the same for every body but the JSON value null, whose
\* destructuring throws out of the handler.
ExplainErrorsAnsweredButNull ==
  exPc = "done" =>
    /\ (exReq.body \in {"object", "scalar"} /\ Lacking(exReq) # {}) =>
         /\ exResp.status = 400
         /\ exResp.error = "Missing required fields: " \o Listed(exReq, 1)
         /\ exCalls = 0
    /\ (exReq.body = "object" /\ Lacking(exReq) = {}
        /\ exKey \in {UndefV, "", PlaceholderKey}) =>
         exResp.status = 500 /\ exCalls = 0
    /\ exService \in {"rejected", "notOk", "noText"} => exResp.status = 500
    /\ exReq.body = "invalid" => exResp.status = 400 /\ exCalls = 0
    /\ exThrown <=> exReq.body = "null"
    /\ exResp.status = 200 => exService = "ok" /\ exCalls = 1 /\ Lacking(exReq) = {}

\* A plddt of 0 with geneName and clinvar lacking: 400 naming those two.
ZeroPlddtNotMissing ==
  /\ exPc = "done"
  /\ exReq.plddt = Number(0, FALSE)
  /\ exResp = ExplainReturn(400, "error", "Missing required fields: geneName, clinvar")

\* The body null: the handler throws and returns no response.
NullBodyThrows ==
  /\ exPc = "done"
  /\ exReq.body = "null"
  /\ exThrown
  /\ exResp = NoExplainResponse

(* ================= properties of the viewer's loading flag ============ *)

\* The viewers of cycle c whose construction ran to the end.
Built(c) == {v \in ViewersOf(c) : Recorded(v)}

\* Cycle c has finished initialising: one viewer in single mode, the
\* wild-type and the mutant viewer in dual mode.
Initialised(c) ==
  /\ cycles[c].initDone
  /\ ~cycles[c].threw
  /\ {viewers[v].role : v \in Built(c)} =
       IF cycles[c].isDual THEN {"wild", "mutant"} ELSE {"single"}
  /\ Cardinality(Built(c)) = IF cycles[c].isDual THEN 2 ELSE 1

\* C23: whenever loading is false the most recently started cycle has
\* finished initialising all of its viewers; a step that starts a cycle
\* leaves loading true unless that cycle initialised within the step, so
\* loading is true before the callback can run; and a cancelled cycle never
\* completes an initialisation nor turns loading to false.
LoadingFalseMeansInitialised ==
  /\ [](~loading => (cycles # <<>> /\ Initialised(Len(cycles))))
  /\ [][/\ Len(cycles') > Len(cycles) =>
            (cycles'[Len(cycles')].initDone \/ loading')
        /\ \A c \in 1..Len(cycles) :
             cycles[c].cancelled =>
               /\ cycles'[c].initDone = cycles[c].initDone
               /\ cycles'[c].onReadyCalls = cycles[c].onReadyCalls
        /\ (loading /\ ~loading') =>
             LET n == Len(cycles')
             IN /\ ~cycles'[n].cancelled
                /\ cycles'[n].initDone
                /\ (n > Len(cycles) \/ ~cycles[n].initDone)]_vars

\* C23 witness: a first cycle initialised and was torn down, the second, in
\* dual mode, built both viewers and loading is false.
SecondDualCycleDisplayed ==
  /\ Len(cycles) = 2
  /\ cycles[1].initDone /\ cycles[1].cancelled
  /\ cycles[2].isDual
  /\ Initialised(2)
  /\ ~loading

\* A cycle started after a displayed one set loading to true again and
\* then failed in an engine call: loading is left true.
LaterCycleLoadingAgain ==
  /\ Len(cycles) = 2
  /\ cycles[1].initDone
  /\ ~cycles[2].initDone
  /\ cycles[2].threw
  /\ loading

(* ================ properties of a failed script load =================== *)

\* C25: once the load of the engine script has failed it stays failed
\* in every later step; while it is failed loading is true, the script
\* element was appended once, no callback has run and no cycle has
\* completed an initialisation; and every cycle started after the failure
\* finds the script element and attaches a load listener to it instead of
\* appending another one.
FailedLoadIsFinal ==
  /\ [](scriptState = "failed" =>
          /\ loading
          /\ scriptAppends = 1
          /\ ~window3Dmol
          /\ \A c \in 1..Len(cycles) :
               ~cycles[c].initDone /\ cycles[c].onReadyCalls = 0)
  /\ [][scriptState = "failed" => scriptState' = "failed"]_vars
  /\ [][(scriptState = "failed" /\ Len(cycles') > Len(cycles)) =>
          LET n == Len(cycles')
          IN /\ n = Len(cycles) + 1
             /\ cycles'[n].loadBranch = "existing"
             /\ \E i \in 1..Len(loadListeners') : loadListeners'[i] = n
             /\ scriptAppends' = scriptAppends
             /\ scriptState' = "failed"
             /\ loading']_vars

\* C25 witness: a cycle started after the load had failed is mounted and
\* waits on the script element of the first cycle.
CycleStartedAfterFailure ==
  /\ scriptState = "failed"
  /\ Len(cycles) = 2
  /\ cycles[1].loadBranch = "created"
  /\ cycles[2].scriptAtCall = "failed"
  /\ cycles[2].loadBranch = "existing"
  /\ Listening(2)
  /\ mounted
  /\ loading

(* ================= properties of the page's explanation ================ *)

\* The explanation request i is the one of the triple now in state.
OfCurrentTriple(i) ==
  /\ pgStructure.set
  /\ pgExplains[i].of = pgStructure.run
  /\ pgExplains[i].of = Len(pgRuns)

\* C24: an explanation held in state was answered for the triple now in
\* state; and a step in which the response to an explanation request
\* arrives after a newer query was submitted, or a newer explanation
\* request was issued, changes neither the explanation nor explainLoading.
ExplanationOfCurrentTriple ==
  /\ [](pgExplanation.kind # "empty" =>
          (pgStructure.set /\ pgExplanation.of = pgStructure.run))
  /\ [][\A i \in 1..Len(pgExplains) :
          (/\ pgExplains[i].pending /\ ~pgExplains'[i].pending
           /\ (pgExplains[i].of < Len(pgRuns) \/ i < Len(pgExplains)))
            => /\ pgExplanation' = pgExplanation
               /\ pgExplainLoading' = pgExplainLoading]_vars

\* What holds of C24: the response to the request of the triple in state
\* is the explanation shown, and explainLoading is true from the request
\* of a triple until some explanation response arrives.
CurrentAnswerShown ==
  [][\A i \in 1..Len(pgExplains) :
       (pgExplains[i].pending /\ ~pgExplains'[i].pending /\ OfCurrentTriple(i))
         => (pgExplanation'.of = pgStructure.run /\ ~pgExplainLoading')]_vars

\* The first query's explanation arrives after the second query was
\* submitted: it is put in state while mutation, protein and structure are
\* null.
StaleAnswerAfterSubmit ==
  /\ Len(pgRuns) = 2
  /\ ~pgStructure.set
  /\ pgExplanation.kind = "text"
  /\ pgExplanation.of = 1

\* The first query's explanation arrives while the second query's
\* explanation is awaited: it is shown under the second structure and
\* explainLoading is false with that request pending.
StaleAnswerShown ==
  /\ pgStructure.set /\ pgStructure.run = 2
  /\ pgMutation.gene = "BRCA1"
  /\ Len(pgExplains) = 2 /\ pgExplains[2].pending
  /\ pgExplanation.kind = "text"
  /\ pgExplanation.of = 1
  /\ ~pgExplainLoading

(* =================== properties of the page's loading ================== *)

\* The calls of handleSubmit that have not returned.
InFlight == {k \in 1..Len(pgRuns) : pgRuns[k].pc # "done"}

Ends == {"empty", "format", "lookupFailed", "structureFailed", "thrown", "success"}

\* Run k ends in this step.
EndsNow(k) ==
  /\ k \in 1..Len(pgRuns')
  /\ pgRuns'[k].pc = "done"
  /\ (k \in 1..Len(pgRuns) => pgRuns[k].pc # "done")

SoundCaIn(lines, r) ==
  {i \in 1..Len(lines) : IsSoundCa(lines[i]) /\ lines[i].resi = r}

\* The coordinates of the last sound CA record of residue r.
LastOf(lines, r) == lines[Largest(SoundCaIn(lines, r))].v

\* C27: of several parsable CA records of one residue parseCaAtoms keeps
\* the coordinates of the last in text order, and the displacement of a
\* residue with such records in both texts is the distance (in
\* thousandths, rounded down) between the last record of the wild-type
\* text and the last record of the mutant text.
LastRecordWinsOnEachSide ==
  dispPc = "done" =>
    /\ \A r \in MapKeys(dispWildCa) : MapGet(dispWildCa, r) = LastOf(dispWild, r)
    /\ \A r \in MapKeys(dispMutantCa) : MapGet(dispMutantCa, r) = LastOf(dispMutant, r)
    /\ \A r \in 0..13 :
         /\ MapHas(dispWildCa, r) <=> SoundCaIn(dispWild, r) # {}
         /\ MapHas(dispMutantCa, r) <=> SoundCaIn(dispMutant, r) # {}
         /\ MapHas(dispMap, r) <=>
              (SoundCaIn(dispWild, r) # {} /\ SoundCaIn(dispMutant, r) # {})
    /\ \A r \in MapKeys(dispMap) :
         LET d == MapGet(dispMap, r)
             s == SquaredDistance(LastOf(dispWild, r), LastOf(dispMutant, r))
         IN d >= 0 /\ d * d <= s /\ s < (d + 1) * (d + 1)

\* C27 witness: the wild-type text has two CA records of residue 10, the
\* mutant text the first of them alone: the displacement is that of the
\* second wild-type record, 5.766, not 0.
TwoRecordsOfResidueTen ==
  /\ dispPc = "done"
  /\ dispWild = <<CaTen, CaTenMoved>>
  /\ dispMutant = <<CaTen>>
  /\ dispWildCa = << [k |-> 10, v |-> [x |-> 4000, y |-> 0, z |-> 0 - 1500]] >>
  /\ dispMap = << [k |-> 10, v |-> 5766] >>

(* ================== properties of the legacy viewer =================== *)

LegacyLive == {v \in 1..Len(lgViewers) : ~lgViewers[v].cleared}

\* At most one viewer is live, the one viewerRef holds, and at most one
\* div is attached, the one viewerDivRef holds; after unmount none is.
OneViewerOneDiv ==
  /\ Cardinality(LegacyLive) <= 1
  /\ Cardinality(lgChildren) <= 1
  /\ \A v \in LegacyLive : v = lgViewerRef
  /\ \A d \in lgChildren : d = lgViewerDivRef
  /\ ~lgMounted => (LegacyLive = {} /\ lgChildren = {})

\* A step that creates a viewer leaves every earlier viewer cleared and
\* every earlier div detached.
PreviousReleasedFirst ==
  Len(lgViewers') > Len(lgViewers) =>
    /\ \A v \in 1..Len(lgViewers) : lgViewers'[v].cleared
    /\ lgChildren' \cap (1..Len(lgDivs)) = {}

\* No tryInit of a superseded run of the effect has been invoked.
NoLateTryInit == \A e \in 1..Len(lgEffects) : lgEffects[e].lateCalls = 0

\* C28: at most one viewer instance is live and at most one div is
\* attached to the wrapper, initViewer clears the previous viewer and
\* removes its div before it creates the next, the load listener of a
\* superseded effect is never invoked, and after unmount no viewer is live
\* and no div attached.
LegacyOneLiveViewer ==
  /\ [](OneViewerOneDiv /\ NoLateTryInit)
  /\ [][PreviousReleasedFirst]_vars

\* What holds of C28: the same, as long as no engine call has thrown.
LegacyOneLiveViewerUnlessThrown ==
  /\ []((\A e \in 1..Len(lgEffects) : ~lgEffects[e].threw) => OneViewerOneDiv)
  /\ []NoLateTryInit
  /\ [][(\A e \in 1..Len(lgEffects') : ~lgEffects'[e].threw)
          => PreviousReleasedFirst]_vars

\* The listener's initViewer threw in addModel: the viewer it had created
\* is in no ref, and the unmount that followed left it uncleared.
LegacyViewerLeftAfterUnmount ==
  /\ ~lgMounted /\ ~lgCrashed
  /\ lgFault.op = "addModel"
  /\ Len(lgViewers) = 1
  /\ ~lgViewers[1].cleared
  /\ lgViewerRef = 0

\* Without a throwing call: the second run of the effect cleared the
\* first viewer, removed its div and built its own.
LegacyViewerReplaced ==
  /\ lgMounted
  /\ Len(lgEffects) = 2
  /\ lgEffects[1].initDone /\ lgEffects[2].initDone
  /\ lgViewers[1].cleared
  /\ LegacyLive = {2}
  /\ lgChildren = {2}

\* A run of the effect was cleaned up while the script was loading; the
\* load event then invoked the listener of the next run alone.
LegacySupersededListenerSilent ==
  /\ Len(lgEffects) = 2
  /\ lgEffects[1].cancelled /\ lgEffects[1].tryInitCalls = 0
  /\ lgEffects[2].branch = "existing" /\ lgEffects[2].tryInitCalls = 1
  /\ lgScript = "loaded"

====
